---- MODULE Spec2Model ----
(***************************************************************************)
(* A model of the workout-timer API: the POST /generate handler, the       *)
(* deterministic extractor chain and the response normalizer.              *)
(*                                                                         *)
(* Texts are sequences of one-character strings, so that the regular       *)
(* expressions of the source are matched character by character.  The      *)
(* provider's JSON is a tree of tagged JavaScript values, so that          *)
(* truthiness, `||` defaulting, property access on null and the            *)
(* TypeErrors of the source are computed, not assumed.                     *)
(***************************************************************************)
EXTENDS Integers, Sequences, FiniteSets, TLC

VARIABLES
  pc,          \* where the handler is: "idle", "awaiting" (the provider call), "sent"
  variant,     \* which copy of the pipeline serves: "part_000" or "server.js"
  text,        \* String(body.text || "")
  json,        \* what the provider call and JSON.parse gave
  normalized,  \* what normalizeAIToWorkoutJSON gave
  det,         \* what deterministicParse gave, in the catch block
  path,        \* which reply.send ran; for an extractor called on its own, which one
  response,    \* the value handed to reply.send
  escaped,     \* whether an exception left the handler
  calls,       \* how often the handler has called the provider for this request
  reqs,        \* the requests in flight at once: each holds the handler's locals
  rawSeq,      \* the raw sequence handed to analyzeAndFixSequence, called on its own
  fixedSeq     \* what analyzeAndFixSequence returned

vars == <<pc, variant, text, json, normalized, det, path, response, escaped,
          calls, reqs, rawSeq, fixedSeq>>

(***************************************************************************)
(* Characters and strings                                                  *)
(***************************************************************************)

Digits == <<"0", "1", "2", "3", "4", "5", "6", "7", "8", "9">>

Uppers == <<"A", "B", "C", "D", "E", "F", "G", "H", "I", "J", "K", "L", "M",
            "N", "O", "P", "Q", "R", "S", "T", "U", "V", "W", "X", "Y", "Z">>

Lowers == <<"a", "b", "c", "d", "e", "f", "g", "h", "i", "j", "k", "l", "m",
            "n", "o", "p", "q", "r", "s", "t", "u", "v", "w", "x", "y", "z">>

Range(s) == {s[i] : i \in DOMAIN s}

DigitSet == Range(Digits)
UpperSet == Range(Uppers)
AlnumSet == Range(Digits) \cup Range(Uppers) \cup Range(Lowers)
WordSet == AlnumSet \cup {"_"}

IsDigit(c) == c \in DigitSet

IsSpace(c) == c \in {" ", "\n", "\t"}

IsWordChar(c) == c \in WordSet

\* String.prototype.toLowerCase, one character
LowerOf == [c \in UpperSet |-> Lowers[CHOOSE i \in DOMAIN Uppers : Uppers[i] = c]]

LowerChar(c) == IF c \in UpperSet THEN LowerOf[c] ELSE c

toLowerCase(s) == [i \in DOMAIN s |-> LowerChar(s[i])]

DigitValue(c) == (CHOOSE i \in DOMAIN Digits : Digits[i] = c) - 1

\* parseInt(s, 10) of a string of decimal digits
RECURSIVE parseInt(_)
parseInt(s) ==
  IF Len(s) = 0 THEN 0
  ELSE 10 * parseInt(SubSeq(s, 1, Len(s) - 1)) + DigitValue(s[Len(s)])

\* String(n) of a non-negative integer
RECURSIVE numToString(_)
numToString(n) ==
  IF n < 10 THEN <<Digits[n + 1]>>
  ELSE numToString(n \div 10) \o <<Digits[(n % 10) + 1]>>

\* String.prototype.includes
includes(s, sub) ==
  \E i \in 1..(Len(s) - Len(sub) + 1) : SubSeq(s, i, i + Len(sub) - 1) = sub

\* String.prototype.trim
RECURSIVE trimStart(_)
trimStart(s) ==
  IF Len(s) > 0 /\ IsSpace(s[1]) THEN trimStart(Tail(s)) ELSE s

RECURSIVE trimEnd(_)
trimEnd(s) ==
  IF Len(s) > 0 /\ IsSpace(s[Len(s)]) THEN trimEnd(SubSeq(s, 1, Len(s) - 1)) ELSE s

trim(s) == trimEnd(trimStart(s))

(***************************************************************************)
(* Regular expressions.  A pattern is a sequence of elements:              *)
(*   lit  a literal, compared case-insensitively (every pattern of the     *)
(*        source has the i flag)                                           *)
(*   opt  an optional literal (x?), greedy                                 *)
(*   cls  lo to hi characters of a class, greedy with backtracking         *)
(*   cap / end  the start and the end of capture group 1                   *)
(*   cap2 the start of capture group 2, which runs to the end of the match *)
(*   wb   a word boundary (\b)                                             *)
(*   alt  the first of several literals that matches                       *)
(*   nla  a negative lookahead (?!.*lit): lit does not follow on the line  *)
(***************************************************************************)

Lit(s) == [t |-> "lit", s |-> s]
Opt(s) == [t |-> "opt", s |-> s]
Cls(c, lo, hi) == [t |-> "cls", c |-> c, lo |-> lo, hi |-> hi]
\* c* and c+ : hi = -1 is "no upper limit"
Star(c) == [t |-> "cls", c |-> c, lo |-> 0, hi |-> -1]
Plus(c) == [t |-> "cls", c |-> c, lo |-> 1, hi |-> -1]
Cap == [t |-> "cap"]
End == [t |-> "end"]
Cap2 == [t |-> "cap2"]
Wb == [t |-> "wb"]
Alt(a) == [t |-> "alt", a |-> a]
Nla(s) == [t |-> "nla", s |-> s]

InClass(c, cls) ==
  CASE cls = "digit" -> IsDigit(c)                       \* \d
    [] cls = "nondigit" -> ~IsDigit(c)                   \* [^\d]
    [] cls = "space" -> IsSpace(c)                       \* \s
    [] cls = "nonword" -> ~IsWordChar(c)                 \* [^\w]
    [] cls = "nonalnum" ->                               \* [^a-z0-9] under /i
         c \notin AlnumSet
    [] cls = "clause" -> c \notin {".", ";", "\n"}       \* [^.;\n]
    [] cls = "item" -> c \notin {",", ".", ";", "\n"}    \* [^,.;\n]
    [] cls = "dot" -> c # "\n"                           \* .

LitAt(txt, pos, s) ==
  /\ pos + Len(s) - 1 <= Len(txt)
  /\ \A i \in 1..Len(s) : LowerChar(txt[pos + i - 1]) = LowerChar(s[i])

\* the number of consecutive characters of class cls from pos, at most hi
\* (a negative hi never reaches 0: no limit)
RECURSIVE RunLength(_, _, _, _)
RunLength(txt, pos, cls, hi) ==
  IF hi = 0 \/ pos > Len(txt) \/ ~InClass(txt[pos], cls) THEN 0
  ELSE 1 + RunLength(txt, pos + 1, cls, hi - 1)

WordAt(txt, pos) == pos >= 1 /\ pos <= Len(txt) /\ IsWordChar(txt[pos])

\* the end of the line that holds position pos (. does not match \n)
RECURSIVE LineEnd(_, _)
LineEnd(txt, pos) ==
  IF pos > Len(txt) \/ txt[pos] = "\n" THEN pos - 1 ELSE LineEnd(txt, pos + 1)

NoMatch == [ok |-> FALSE]

RECURSIVE MatchFrom(_, _, _, _, _)
RECURSIVE TryRepeat(_, _, _, _, _, _)
RECURSIVE TryAlt(_, _, _, _, _, _)

\* the pattern's elements k.. matched at pos; g holds the captures so far:
\* group 1 is txt[g.cs .. g.ce - 1], group 2 starts at g.cs2 and ends the match
MatchFrom(txt, re, k, pos, g) ==
  IF k > Len(re) THEN [ok |-> TRUE, e |-> pos, cs |-> g.cs, ce |-> g.ce, cs2 |-> g.cs2]
  ELSE LET el == re[k] IN
    CASE el.t = "lit" ->
           IF LitAt(txt, pos, el.s)
           THEN MatchFrom(txt, re, k + 1, pos + Len(el.s), g)
           ELSE NoMatch
      [] el.t = "opt" ->
           IF LitAt(txt, pos, el.s)
           THEN LET r == MatchFrom(txt, re, k + 1, pos + Len(el.s), g)
                IN IF r.ok THEN r ELSE MatchFrom(txt, re, k + 1, pos, g)
           ELSE MatchFrom(txt, re, k + 1, pos, g)
      [] el.t = "cls" ->
           TryRepeat(txt, re, k, pos, RunLength(txt, pos, el.c, el.hi), g)
      [] el.t = "cap" -> MatchFrom(txt, re, k + 1, pos, [g EXCEPT !.cs = pos])
      [] el.t = "end" -> MatchFrom(txt, re, k + 1, pos, [g EXCEPT !.ce = pos])
      [] el.t = "cap2" -> MatchFrom(txt, re, k + 1, pos, [g EXCEPT !.cs2 = pos])
      [] el.t = "wb" ->
           IF WordAt(txt, pos - 1) # WordAt(txt, pos)
           THEN MatchFrom(txt, re, k + 1, pos, g)
           ELSE NoMatch
      [] el.t = "alt" -> TryAlt(txt, re, k, pos, 1, g)
      [] el.t = "nla" ->
           IF includes(toLowerCase(SubSeq(txt, pos, LineEnd(txt, pos))), el.s)
           THEN NoMatch
           ELSE MatchFrom(txt, re, k + 1, pos, g)

\* greedy: n repetitions first, then fewer, down to the element's minimum
TryRepeat(txt, re, k, pos, n, g) ==
  IF n < re[k].lo THEN NoMatch
  ELSE LET r == MatchFrom(txt, re, k + 1, pos + n, g)
       IN IF r.ok THEN r ELSE TryRepeat(txt, re, k, pos, n - 1, g)

TryAlt(txt, re, k, pos, j, g) ==
  IF j > Len(re[k].a) THEN NoMatch
  ELSE LET r == IF LitAt(txt, pos, re[k].a[j])
                THEN MatchFrom(txt, re, k + 1, pos + Len(re[k].a[j]), g)
                ELSE NoMatch
       IN IF r.ok THEN r ELSE TryAlt(txt, re, k, pos, j + 1, g)

RECURSIVE Search(_, _, _)

\* the match r found at position from, or else the search goes on after from
FoundOrNext(r, txt, re, from) ==
  IF r.ok
  THEN [ok |-> TRUE, s |-> from, e |-> r.e, cs |-> r.cs, ce |-> r.ce, cs2 |-> r.cs2]
  ELSE Search(txt, re, from + 1)

\* the leftmost match that starts at or after position from
Search(txt, re, from) ==
  IF from > Len(txt) + 1 THEN NoMatch
  ELSE FoundOrNext(MatchFrom(txt, re, 1, from, [cs |-> 0, ce |-> 0, cs2 |-> 0]),
                   txt, re, from)

\* RegExp.prototype.test
test(re, txt) == Search(txt, re, 1).ok

\* String.prototype.matchAll of a /g pattern: the successive matches, each
\* search starting where the match before it ended
RECURSIVE MatchAllFrom(_, _, _)

\* the match m and the matches after it
MatchAndRest(m, txt, re) ==
  IF ~m.ok THEN <<>>
  ELSE <<m>> \o MatchAllFrom(txt, re, IF m.e > m.s THEN m.e ELSE m.e + 1)

MatchAllFrom(txt, re, from) == MatchAndRest(Search(txt, re, from), txt, re)

matchAll(re, txt) == MatchAllFrom(txt, re, 1)

\* String.prototype.match(re)?.[1]: capture group 1 of the leftmost match, or
\* undefined (no match, or a group that matched nothing)
Group1(m, txt) ==
  IF m.ok /\ m.ce > m.cs
  THEN [k |-> "string", s |-> SubSeq(txt, m.cs, m.ce - 1)]
  ELSE [k |-> "undefined"]

Capture(re, txt) == Group1(Search(txt, re, 1), txt)

(***************************************************************************)
(* JavaScript values.  Thrown stands for an expression that throws: every  *)
(* operator below passes it on, as an exception unwinds an expression.     *)
(***************************************************************************)

Undef == [k |-> "undefined"]
Null == [k |-> "null"]
NaN == [k |-> "NaN"]
Num(n) == [k |-> "number", n |-> n]
Str(s) == [k |-> "string", s |-> s]
Bool(b) == [k |-> "boolean", b |-> b]
Arr(a) == [k |-> "array", a |-> a]
Obj(f) == [k |-> "object", f |-> f]
Thrown == [k |-> "thrown"]

\* ToBoolean
Truthy(v) ==
  CASE v.k \in {"undefined", "null", "NaN"} -> FALSE
    [] v.k = "number" -> v.n # 0
    [] v.k = "string" -> Len(v.s) > 0
    [] v.k = "boolean" -> v.b
    [] v.k \in {"array", "object"} -> TRUE

\* a || b
Or(a, b) ==
  IF a = Thrown THEN Thrown ELSE IF Truthy(a) THEN a ELSE b

\* a ?? b
Nullish(a, b) ==
  IF a = Thrown THEN Thrown ELSE IF a.k \in {"undefined", "null"} THEN b ELSE a

\* v.name: a TypeError on null and undefined, undefined on a primitive
Get(v, name) ==
  CASE v.k \in {"thrown", "undefined", "null"} -> Thrown
    [] v.k = "object" -> IF name \in DOMAIN v.f THEN v.f[name] ELSE Undef
    [] v.k = "array" -> IF name = "length" THEN Num(Len(v.a)) ELSE Undef
    [] v.k = "string" -> IF name = "length" THEN Num(Len(v.s)) ELSE Undef
    [] OTHER -> Undef

\* v?.name
OptGet(v, name) ==
  IF v.k \in {"undefined", "null"} THEN Undef ELSE Get(v, name)

\* v[0]: the first element of an array, the first character of a string
First(v) ==
  CASE v.k \in {"thrown", "undefined", "null"} -> Thrown
    [] v.k = "array" -> IF Len(v.a) > 0 THEN v.a[1] ELSE Undef
    [] v.k = "string" -> IF Len(v.s) > 0 THEN Str(<<v.s[1]>>) ELSE Undef
    [] v.k = "object" -> IF "0" \in DOMAIN v.f THEN v.f["0"] ELSE Undef
    [] OTHER -> Undef

\* an object literal: a field whose value is undefined reads as an absent one
\* (and JSON.stringify drops it), so it is not kept
ObjectOf(f) ==
  IF \E x \in DOMAIN f : f[x] = Thrown THEN Thrown
  ELSE Obj([x \in {y \in DOMAIN f : f[y] # Undef} |-> f[x]])

\* an array literal
ArrayOf(a) ==
  IF \E i \in DOMAIN a : a[i] = Thrown THEN Thrown ELSE Arr(a)

\* { ...o, the fields of f }
Spread(o, f) ==
  IF \E x \in DOMAIN f : f[x] = Thrown THEN Thrown
  ELSE LET names == DOMAIN o.f \cup DOMAIN f
           val(x) == IF x \in DOMAIN f THEN f[x] ELSE o.f[x]
       IN Obj([x \in {y \in names : val(y) # Undef} |-> val(x)])

\* Array.isArray
isArray(v) == v.k = "array"

\* typeof v === "string"
isString(v) == v.k = "string"

\* v === "literal"
Is(v, s) == v.k = "string" /\ v.s = s

\* ToNumber of the values that reach arithmetic here: numbers, and the
\* undefined of an absent field (NaN)
IsNumeric(v) == v.k \in {"number", "NaN", "undefined"}

\* a + b, a - b, a * b on numbers; NaN is contagious
Arith(op, a, b) ==
  CASE a = Thrown \/ b = Thrown -> Thrown
    [] IsNumeric(a) /\ IsNumeric(b) ->
         IF a.k # "number" \/ b.k # "number" THEN NaN
         ELSE CASE op = "+" -> Num(a.n + b.n)
                [] op = "-" -> Num(a.n - b.n)
                [] op = "*" -> Num(a.n * b.n)

Add(a, b) == Arith("+", a, b)
Sub(a, b) == Arith("-", a, b)
Mul(a, b) == Arith("*", a, b)

\* Math.ceil(a / d) of an integer a and a positive integer d
CeilDiv(a, d) ==
  CASE a = Thrown -> Thrown
    [] IsNumeric(a) -> IF a.k # "number" THEN NaN ELSE Num(-((-a.n) \div d))

\* a >= n
Ge(a, n) ==
  CASE a = Thrown -> Thrown
    [] IsNumeric(a) -> Bool(a.k = "number" /\ a.n >= n)

\* a > n
Gt(a, n) ==
  CASE a = Thrown -> Thrown
    [] IsNumeric(a) -> Bool(a.k = "number" /\ a.n > n)

\* array.map(F): the exception of any call is the call's
Map(v, F(_)) ==
  IF v.k # "array" THEN Thrown ELSE ArrayOf([i \in DOMAIN v.a |-> F(v.a[i])])

\* a template literal's ${v}, for a number or a string
Show(v) ==
  CASE v.k = "number" -> numToString(v.n)
    [] v.k = "string" -> v.s

(***************************************************************************)
(* String literals of the source                                           *)
(***************************************************************************)

S_odd == <<"o", "d", "d">>
S_even == <<"e", "v", "e", "n">>
S_min == <<"m", "i", "n">>
S_minute == <<"m", "i", "n", "u", "t", "e">>
S_emom == <<"e", "m", "o", "m">>
S_every == <<"e", "v", "e", "r", "y">>
S_tabata == <<"t", "a", "b", "a", "t", "a">>
S_rounds == <<"r", "o", "u", "n", "d", "s">>
S_round == <<"r", "o", "u", "n", "d">>
S_s == <<"s">>
S_ec == <<"e", "c">>
S_work == <<"w", "o", "r", "k">>
S_rest == <<"r", "e", "s", "t">>
S_on == <<"o", "n">>
S_total == <<"t", "o", "t", "a", "l">>
S_dash == <<"-">>
S_x == <<"x">>
S_slash == <<"/">>
S_Work == <<"W", "o", "r", "k">>
S_Mixed == <<"M", "i", "x", "e", "d">>
S_Tabata == <<"T", "a", "b", "a", "t", "a">>
S_EMOM == <<"E", "M", "O", "M">>
S_TABATA == <<"T", "A", "B", "A", "T", "A">>
S_CIRCUIT == <<"C", "I", "R", "C", "U", "I", "T">>
S_INTERVAL == <<"I", "N", "T", "E", "R", "V", "A", "L">>
S_INTERVALseq == S_INTERVAL \o <<"(", "s", "e", "q", "u", "e", "n", "c", "e", ")">>
S_FALLBACK == <<"F", "A", "L", "L", "B", "A", "C", "K">>
\* "-min EMOM" and "-min EMOM Workout"
S_minEMOM == <<"-", "m", "i", "n", " ">> \o S_EMOM
S_minEMOMWorkout == S_minEMOM \o <<" ", "W", "o", "r", "k", "o", "u", "t">>
\* "Tabata ", "HIIT ", " rounds", " Intervals"
S_TabataSp == S_Tabata \o <<" ">>
S_HIITSp == <<"H", "I", "I", "T", " ">>
S_SpRounds == <<" ">> \o S_rounds
S_SpIntervals == <<" ", "I", "n", "t", "e", "r", "v", "a", "l", "s">>
\* "Fallback 20x40/20", "AI parse failed", "Raw AI shape"
S_FallbackTitle == <<"F", "a", "l", "l", "b", "a", "c", "k", " ", "2", "0", "x", "4", "0", "/", "2", "0">>
S_AIParseFailed == <<"A", "I", " ", "p", "a", "r", "s", "e", " ", "f", "a", "i", "l", "e", "d">>
S_RawAIShape == <<"R", "a", "w", " ", "A", "I", " ", "s", "h", "a", "p", "e">>

(***************************************************************************)
(* Deterministic parsing helpers                                           *)
(***************************************************************************)

\* const num = (s) => (s ? parseInt(s,10) : undefined), of a digit capture
num(s) == IF s = Undef THEN Undef ELSE IF Truthy(s) THEN Num(parseInt(s.s)) ELSE Undef

\* /odd[^\w]+([^.;\n]+)/i and /even[^\w]+([^.;\n]+)/i
RE_oddW == <<Lit(S_odd), Plus("nonword"), Cap, Plus("clause"), End>>
RE_evenW == <<Lit(S_even), Plus("nonword"), Cap, Plus("clause"), End>>

\* ...?.[1]?.trim()
Trimmed(c) == IF c = Undef THEN Undef ELSE Str(trim(c.s))

extractOddEven(txt) ==
  [odd |-> Trimmed(Capture(RE_oddW, txt)), even |-> Trimmed(Capture(RE_evenW, txt))]

\* /(\d{1,3})\s*-?\s*(?:min|minute)/i
RE_minutes == <<Cap, Cls("digit", 1, 3), End, Star("space"), Opt(S_dash), Star("space"),
                Alt(<<S_min, S_minute>>)>>

\* /(\bEMOM\b|every\s+minute)/i, as .test() uses it: either alternative, anywhere
RE_EMOMword == <<Wb, Lit(S_emom), Wb>>
RE_everyMinute == <<Lit(S_every), Plus("space"), Lit(S_minute)>>

hasEMOMCue(txt) == test(RE_EMOMword, txt) \/ test(RE_everyMinute, txt)

\* the instructions list both EMOM paths build from the odd and even phrases
Instructions(odd, even) ==
  LET o == IF Truthy(odd)
           THEN <<Obj([minute_mod |-> Str(S_odd), name |-> odd])>> ELSE <<>>
      e == IF Truthy(even)
           THEN <<Obj([minute_mod |-> Str(S_even), name |-> even])>> ELSE <<>>
  IN IF Len(o \o e) = 0 THEN Arr(<<Obj([name |-> Str(S_Work)])>>) ELSE Arr(o \o e)

Cues(halfway) ==
  Obj([start |-> Bool(TRUE), last_round |-> Bool(TRUE), halfway |-> halfway, tts |-> Bool(TRUE)])

\* parseEMOM after its captures: the minute count and the two phrases
EMOMFrom(txt, minutes, oe) ==
  IF ~hasEMOMCue(txt) \/ ~Truthy(minutes) THEN Null
     ELSE Obj([title |-> Str(Show(minutes) \o S_minEMOMWorkout),
               total_minutes |-> minutes,
               blocks |-> Arr(<<Obj([type |-> Str(S_EMOM), minutes |-> minutes,
                                     instructions |-> Instructions(oe.odd, oe.even)])>>),
               cues |-> Cues(Ge(minutes, 10)),
               debug |-> Obj([used_ai |-> Bool(FALSE), inferred_mode |-> Str(S_EMOM)])])

parseEMOM(txt) == EMOMFrom(txt, num(Capture(RE_minutes, txt)), extractOddEven(txt))

\* /\btabata\b/i
RE_tabata == <<Wb, Lit(S_tabata), Wb>>
\* /(\d{1,2})\s*rounds/i
RE_rounds2 == <<Cap, Cls("digit", 1, 2), End, Star("space"), Lit(S_rounds)>>
\* /(\d{1,3})\s*s(?:ec)?\s*work/i
RE_sWork == <<Cap, Cls("digit", 1, 3), End, Star("space"), Lit(S_s), Opt(S_ec),
              Star("space"), Lit(S_work)>>
\* /(\d{1,3})\s*s(?:ec)?\s*rest/i
RE_sRest == <<Cap, Cls("digit", 1, 3), End, Star("space"), Lit(S_s), Opt(S_ec),
              Star("space"), Lit(S_rest)>>

\* the schedule parseTabata returns for its three counts
TabataFrom(rounds, work, rest) ==
          Obj([title |-> Str(S_TabataSp \o Show(rounds) \o S_x \o Show(work)
                               \o S_slash \o Show(rest)),
               total_minutes |-> CeilDiv(Mul(rounds, Add(work, rest)), 60),
               blocks |-> Arr(<<Obj([type |-> Str(S_TABATA), rounds |-> rounds,
                                     work_seconds |-> work, rest_seconds |-> rest,
                                     exercise |-> Str(S_Tabata)])>>),
               cues |-> Cues(Ge(rounds, 8)),
               debug |-> Obj([used_ai |-> Bool(FALSE), inferred_mode |-> Str(S_TABATA)])])

parseTabata(txt) ==
  IF ~test(RE_tabata, txt) THEN Null
  ELSE TabataFrom(Or(num(Capture(RE_rounds2, txt)), Num(8)),
                  Or(num(Capture(RE_sWork, txt)), Num(20)),
                  Or(num(Capture(RE_sRest, txt)), Num(10)))

\* /total\s+(\d{1,3})\s+rounds?/i
RE_totalRounds == <<Lit(S_total), Plus("space"), Cap, Cls("digit", 1, 3), End,
                    Plus("space"), Lit(S_round), Opt(S_s)>>
\* /(\d{1,3})\s+rounds?/i
RE_nRounds == <<Cap, Cls("digit", 1, 3), End, Plus("space"), Lit(S_round), Opt(S_s)>>
\* /(\d{1,3})\s*s(?:ec)?\s+([^,.;\n]+)/ig
RE_item == <<Cap, Cls("digit", 1, 3), End, Star("space"), Lit(S_s), Opt(S_ec),
             Plus("space"), Cap2, Plus("item")>>
\* /rest/i
RE_rest == <<Lit(S_rest)>>
\* /rest[^\d]*(\d{1,3})?/i
RE_restNum == <<Lit(S_rest), Star("nondigit"), Cap, Cls("digit", 0, 3), End>>

\* m => ({ seconds: parseInt(m[1],10), name: m[2].trim() })
HiitItem(m, txt) ==
  Obj([seconds |-> Num(parseInt(SubSeq(txt, m.cs, m.ce - 1))),
       name |-> Str(trim(SubSeq(txt, m.cs2, m.e - 1)))])

ItemsOf(ms, txt) == [i \in DOMAIN ms |-> HiitItem(ms[i], txt)]

HiitItems(txt) == ItemsOf(matchAll(RE_item, txt), txt)

\* items.reduce((a,b)=>a+b.seconds,0)
RECURSIVE SumSeconds(_)
SumSeconds(items) ==
  IF Len(items) = 0 THEN Num(0)
  ELSE Add(SumSeconds(SubSeq(items, 1, Len(items) - 1)), Get(items[Len(items)], "seconds"))

\* restm?.[1] ? parseInt(restm[1],10) : 30
RestOf(restm) == IF Truthy(restm) THEN Num(parseInt(restm.s)) ELSE Num(30)

\* the rest between rounds: only when the text says rest and the last item does not
RestBetween(txt, items) ==
  IF test(RE_rest, txt) /\ ~includes(toLowerCase(items[Len(items)].f.name.s), S_rest)
  THEN RestOf(Capture(RE_restNum, txt))
  ELSE Num(0)

\* parseHiitSequence after its captures
HiitFrom(rounds, items, rest_between) ==
  IF ~Truthy(rounds) \/ Len(items) < 1 THEN Null
     ELSE Obj([title |-> Str(S_HIITSp \o Show(rounds) \o S_SpRounds),
                  total_minutes |->
                    CeilDiv(Mul(rounds, Add(SumSeconds(items), rest_between)), 60),
                  blocks |-> Arr(<<Obj([type |-> Str(S_INTERVAL),
                                        work_seconds |-> Get(items[1], "seconds"),
                                        rest_seconds |-> Num(0), sets |-> rounds,
                                        sequence |-> Arr(items)])>>),
                  cues |-> Cues(Ge(rounds, 8)),
                  debug |-> Obj([used_ai |-> Bool(FALSE),
                                 inferred_mode |-> Str(S_INTERVALseq)])])

\* the captures of parseHiitSequence; the rest is looked for after the early return
HiitWith(txt, rounds, items) ==
  HiitFrom(rounds, items,
           IF ~Truthy(rounds) \/ Len(items) < 1 THEN Num(0) ELSE RestBetween(txt, items))

parseHiitSequence(txt) ==
  HiitWith(txt, Or(num(Capture(RE_totalRounds, txt)), num(Capture(RE_nRounds, txt))),
           HiitItems(txt))

\* /(\d{1,3})\s*s(?:ec)?\s*(?:work|on)/i
RE_sWorkOn == <<Cap, Cls("digit", 1, 3), End, Star("space"), Lit(S_s), Opt(S_ec),
                Star("space"), Alt(<<S_work, S_on>>)>>
\* /(\d{1,3})\s*s(?!.*rest)/i
RE_sNoRest == <<Cap, Cls("digit", 1, 3), End, Star("space"), Lit(S_s), Nla(S_rest)>>

\* parseGenericIntervals after its captures
GenericFrom(rounds, work, rest) ==
  IF ~Truthy(rounds) \/ ~Truthy(work) THEN Null
     ELSE Obj([title |-> Str(Show(rounds) \o S_x \o Show(work) \o S_slash
                               \o Show(Nullish(rest, Num(0))) \o S_SpIntervals),
               total_minutes |-> CeilDiv(Mul(rounds, Add(work, Nullish(rest, Num(0)))), 60),
               blocks |-> Arr(<<Obj([type |-> Str(S_INTERVAL), work_seconds |-> work,
                                     rest_seconds |-> Nullish(rest, Num(0)),
                                     sets |-> rounds])>>),
               cues |-> Cues(Ge(rounds, 10)),
               debug |-> Obj([used_ai |-> Bool(FALSE), inferred_mode |-> Str(S_INTERVAL)])])

parseGenericIntervals(txt) ==
  GenericFrom(num(Capture(RE_nRounds, txt)),
              Or(num(Capture(RE_sWorkOn, txt)), num(Capture(RE_sNoRest, txt))),
              num(Capture(RE_sRest, txt)))

\* parseEMOM(text) || parseTabata(text) || parseHiitSequence(text) || parseGenericIntervals(text)
\* the chain with its first two extractors in the other order
deterministicParseTabataFirst(txt) ==
  Or(Or(Or(parseTabata(txt), parseEMOM(txt)), parseHiitSequence(txt)),
     parseGenericIntervals(txt))

deterministicParse(txt) ==
  Or(Or(Or(parseEMOM(txt), parseTabata(txt)), parseHiitSequence(txt)),
     parseGenericIntervals(txt))

(***************************************************************************)
(* The work/rest-pattern extractor of README.md, first listing, and the    *)
(* chain that ends with it                                                 *)
(***************************************************************************)

S_45WorkRest == <<":", "4", "5", " ", "W", "O", "R", "K", " ", "/", "/", " ", ":", "1", "5", " ", "R", "E", "S", "T">>
S_WorkRest == <<"W", "O", "R", "K", " ", "/", "/", " ", ":", "1", "5", " ", "R", "E", "S", "T">>
S_RestCap == <<"R", "e", "s", "t">>
S_afterEachRound == <<"a", "f", "t", "e", "r", " ", "e", "a", "c", "h", " ", "r", "o", "u", "n", "d">>
S_slashes == <<"/", "/">>
S_SpRoundsWorkout == <<" ", "R", "o", "u", "n", "d", "s", " ", "W", "o", "r", "k", "o", "u", "t">>
S_ParsedFromPattern == <<"p", "a", "r", "s", "e", "d", " ", "f", "r", "o", "m", " ", "w", "o", "r", "k", "/", "r", "e", "s", "t", " ", "p", "a", "t", "t", "e", "r", "n">>
S_colon == <<":">>
S_after == <<"a", "f", "t", "e", "r">>
S_each == <<"e", "a", "c", "h">>

\* ['Rounds', 'WORK', 'REST', 'Rest', 'after', 'each', 'round']
skipKeywords ==
  {<<"R", "o", "u", "n", "d", "s">>, <<"W", "O", "R", "K">>, <<"R", "E", "S", "T">>, S_RestCap, S_after, S_each, S_round}

\* text.split('\n'): the pieces between the line feeds, from position i on
RECURSIVE SplitFrom(_, _)
SplitFrom(txt, i) ==
  IF LineEnd(txt, i) >= Len(txt) THEN <<SubSeq(txt, i, Len(txt))>>
  ELSE <<SubSeq(txt, i, LineEnd(txt, i))>> \o SplitFrom(txt, LineEnd(txt, i) + 2)

\* text.split('\n').map(l => l.trim()).filter(l => l)
Lines(txt) ==
  SelectSeq([i \in DOMAIN SplitFrom(txt, 1) |-> trim(SplitFrom(txt, 1)[i])],
            LAMBDA l : Len(l) > 0)

hasWorkRestPattern(lines) ==
  \E i \in DOMAIN lines : includes(lines[i], S_45WorkRest) \/ includes(lines[i], S_WorkRest)

hasRestAfterRounds(lines) ==
  \E i \in DOMAIN lines : includes(lines[i], S_RestCap) /\ includes(lines[i], S_afterEachRound)

\* /(\d+)\s*Rounds?/i
RE_Rounds == <<Cap, Plus("digit"), End, Star("space"), Lit(S_round), Opt(S_s)>>

\* /Rest\s+(\d+):(\d+)\s+after\s+each\s+round/i, with group 1 marked
RE_restMinutes ==
  <<Lit(S_rest), Plus("space"), Cap, Plus("digit"), End, Lit(S_colon), Plus("digit"),
    Plus("space"), Lit(S_after), Plus("space"), Lit(S_each), Plus("space"), Lit(S_round)>>

\* the same pattern with group 2 marked
RE_restSeconds ==
  <<Lit(S_rest), Plus("space"), Plus("digit"), Lit(S_colon), Cap, Plus("digit"), End,
    Plus("space"), Lit(S_after), Plus("space"), Lit(S_each), Plus("space"), Lit(S_round)>>

\* the seconds of the match taken for the whole rest, the minutes dropped
RestSecondsOnly(txt) ==
  IF test(RE_restMinutes, txt) THEN parseInt(Capture(RE_restSeconds, txt).s) ELSE 150

\* let restBetweenRounds = 150; if (restMatch) restBetweenRounds = minutes * 60 + seconds
RestBetweenRounds(txt) ==
  IF test(RE_restMinutes, txt)
  THEN parseInt(Capture(RE_restMinutes, txt).s) * 60 + parseInt(Capture(RE_restSeconds, txt).s)
  ELSE 150

\* line.match(/^\d+:/)
StartsWithNumberColon(line) ==
  /\ RunLength(line, 1, "digit", -1) > 0
  /\ RunLength(line, 1, "digit", -1) < Len(line)
  /\ line[RunLength(line, 1, "digit", -1) + 1] = ":"

\* the lines that hold no keyword, no leading "<digits>:" and no "//"
ExerciseLines(lines) ==
  SelectSeq(lines, LAMBDA line :
    /\ \A keyword \in skipKeywords : ~includes(line, keyword)
    /\ ~StartsWithNumberColon(line)
    /\ ~includes(line, S_slashes))

\* exercises.map((exercise, index) => ({ name, seconds: 45, rest_after_seconds: ... }))
PatternSequence(exercises) ==
  [i \in DOMAIN exercises |->
     ObjectOf([name |-> Str(exercises[i]), seconds |-> Num(45),
               rest_after_seconds |-> IF i < Len(exercises) THEN Num(15) ELSE Undef])]

\* a pattern schedule whose block-level rest is 0, the rest between rounds
\* counted in the total only
PatternScheduleZeroRest(rounds, exercises, restBetweenRounds) ==
  Obj([title |-> Str(numToString(rounds) \o S_SpRoundsWorkout),
       total_minutes |->
         CeilDiv(Num(rounds * (Len(exercises) * 45 + (Len(exercises) - 1) * 15)
                     + (rounds - 1) * restBetweenRounds), 60),
       blocks |-> Arr(<<Obj([type |-> Str(S_INTERVAL), sets |-> Num(rounds),
                             work_seconds |-> Num(45),
                             rest_seconds |-> Num(0),
                             sequence |-> Arr(PatternSequence(exercises))])>>),
       cues |-> Cues(Bool(rounds >= 8)),
       debug |-> Obj([used_ai |-> Bool(FALSE), inferred_mode |-> Str(S_INTERVAL),
                      notes |-> Str(S_ParsedFromPattern)])])

\* the schedule parseWorkRestPattern returns
PatternSchedule(rounds, exercises, restBetweenRounds) ==
  Obj([title |-> Str(numToString(rounds) \o S_SpRoundsWorkout),
       total_minutes |->
         CeilDiv(Num(rounds * (Len(exercises) * 45 + (Len(exercises) - 1) * 15)
                     + (rounds - 1) * restBetweenRounds), 60),
       blocks |-> Arr(<<Obj([type |-> Str(S_INTERVAL), sets |-> Num(rounds),
                             work_seconds |-> Num(45),
                             rest_seconds |-> Num(restBetweenRounds),
                             sequence |-> Arr(PatternSequence(exercises))])>>),
       cues |-> Cues(Bool(rounds >= 8)),
       debug |-> Obj([used_ai |-> Bool(FALSE), inferred_mode |-> Str(S_INTERVAL),
                      notes |-> Str(S_ParsedFromPattern)])])

\* parseWorkRestPattern after the split into lines
PatternFrom(txt, lines) ==
  IF ~hasWorkRestPattern(lines) \/ ~hasRestAfterRounds(lines) THEN Null
  ELSE IF ~test(RE_Rounds, txt) THEN Null
  ELSE IF Len(ExerciseLines(lines)) = 0 THEN Null
  ELSE PatternSchedule(parseInt(Capture(RE_Rounds, txt).s), ExerciseLines(lines),
                       RestBetweenRounds(txt))

parseWorkRestPattern(txt) == PatternFrom(txt, Lines(txt))

\* deterministicParse of README.md, first listing
deterministicParse_readme(txt) == Or(deterministicParse(txt), parseWorkRestPattern(txt))

(***************************************************************************)
(* The sequence rectifier                                                  *)
(***************************************************************************)

\* String(item.name || "").toLowerCase().includes("rest"), of a name that is
\* a string or absent; a TypeError when the item is null
IsRestItem(item) ==
  LET name == Or(Get(item, "name"), Str(<<>>))
  IN IF name = Thrown THEN Thrown ELSE Bool(includes(toLowerCase(name.s), S_rest))

\* Number(item.duration || item.seconds || item.duration_seconds || dflt)
ItemDuration(item, dflt) ==
  Or(Or(Or(Get(item, "duration"), Get(item, "seconds")), Get(item, "duration_seconds")),
     Num(dflt))

\* a first pass without its break: the last rest item, or 0 when there is none
RECURSIVE LastRest(_, _)
LastRest(seq, i) ==
  IF i > Len(seq) THEN 0
  ELSE LET r == IsRestItem(seq[i])
           later == LastRest(seq, i + 1)
       IN IF r = Thrown \/ later = -1 THEN -1
          ELSE IF later > 0 THEN later ELSE IF r.b THEN i ELSE 0

\* the first pass: the first rest item, or 0 when there is none
RECURSIVE FirstRest(_, _)
FirstRest(seq, i) ==
  IF i > Len(seq) THEN 0
  ELSE LET r == IsRestItem(seq[i])
       IN IF r = Thrown THEN -1 ELSE IF r.b THEN i ELSE FirstRest(seq, i + 1)

\* the second pass, from item i on: the exercises, in order
RECURSIVE FixedFrom(_, _, _, _)
FixedFrom(seq, i, hasRest, restDuration) ==
  IF i > Len(seq) THEN <<>>
  ELSE LET item == seq[i]
           isRest == IsRestItem(item)
           isLastExercise ==
             IF i = Len(seq) THEN Bool(TRUE) ELSE IsRestItem(seq[i + 1])
           rest == FixedFrom(seq, i + 1, hasRest, restDuration)
       IN IF isRest = Thrown THEN <<Thrown>>
          ELSE IF isRest.b THEN rest
          ELSE IF isLastExercise = Thrown THEN <<Thrown>>
          ELSE <<ObjectOf([name |-> Or(Or(Get(item, "name"), Get(item, "exercise")),
                                       Str(S_Work)),
                           seconds |-> ItemDuration(item, 20),
                           rest_after_seconds |->
                             IF hasRest /\ isLastExercise.b THEN restDuration ELSE Undef])>>
               \o rest

analyzeAndFixSequence(sequence, txt) ==
  IF ~isArray(sequence) THEN sequence
  ELSE LET seq == sequence.a
           r == FirstRest(seq, 1)
           hasRest == r > 0
           restDuration == IF hasRest THEN ItemDuration(seq[r], 15) ELSE Num(0)
           fixed == FixedFrom(seq, 1, hasRest, restDuration)
           n == Len(fixed)
       IN IF r = -1 THEN Thrown
          ELSE IF ~hasRest /\ test(RE_rest, txt) /\ n > 0 /\ fixed[n] # Thrown
          THEN ArrayOf([fixed EXCEPT ![n] = Spread(fixed[n], [rest_after_seconds |-> Num(15)])])
          ELSE ArrayOf(fixed)

\* README.md, second listing: the rectifier that gives each exercise the
\* duration of the rest item right after it.
\* restAfter: nextItem.duration || nextItem.seconds || 15, or 0
RestAfter(seq, i) ==
  IF i < Len(seq) /\ IsRestItem(seq[i + 1]) = Bool(TRUE)
  THEN Or(Or(Get(seq[i + 1], "duration"), Get(seq[i + 1], "seconds")), Num(15))
  ELSE Num(0)

\* fixed.push({ name, seconds, ...(restAfter > 0 ? { rest_after_seconds: restAfter } : {}) })
PushedReadme(item, restAfter) ==
  ObjectOf([name |-> Or(Or(Get(item, "name"), Get(item, "exercise")), Str(S_Work)),
            seconds |-> ItemDuration(item, 20),
            rest_after_seconds |-> IF Gt(restAfter, 0).b THEN restAfter ELSE Undef])

\* the loop, from item i on: the exercises, in order
RECURSIVE FixedFromReadme(_, _)
FixedFromReadme(seq, i) ==
  IF i > Len(seq) THEN <<>>
  ELSE IF IsRestItem(seq[i]) = Thrown THEN <<Thrown>>
  ELSE IF IsRestItem(seq[i]).b THEN FixedFromReadme(seq, i + 1)
  ELSE IF i < Len(seq) /\ IsRestItem(seq[i + 1]) = Thrown THEN <<Thrown>>
  ELSE <<PushedReadme(seq[i], RestAfter(seq, i))>> \o FixedFromReadme(seq, i + 1)

\* fixed[fixed.length - 1].rest_after_seconds = 15, when no rest item was
\* seen and the text says rest
WithDefaultRest(fixed, hasRest, txt) ==
  IF ~hasRest /\ test(RE_rest, txt) /\ Len(fixed) > 0
  THEN ArrayOf([fixed EXCEPT ![Len(fixed)] =
                  Spread(fixed[Len(fixed)], [rest_after_seconds |-> Num(15)])])
  ELSE ArrayOf(fixed)

analyzeAndFixSequence_readme(sequence, txt) ==
  IF ~isArray(sequence) THEN sequence
  ELSE IF \E i \in DOMAIN sequence.a : IsRestItem(sequence.a[i]) = Thrown THEN Thrown
  ELSE WithDefaultRest(FixedFromReadme(sequence.a, 1), FirstRest(sequence.a, 1) > 0, txt)

(***************************************************************************)
(* The response normalizer                                                 *)
(***************************************************************************)

S_20 == <<"2", "0">>
S_8 == <<"8">>
S_10 == <<"1", "0">>
\* "normalized from raw AI", "coerced from text"
S_NormalizedFromRawAI == <<"n", "o", "r", "m", "a", "l", "i", "z", "e", "d", " ",
                           "f", "r", "o", "m", " ", "r", "a", "w", " ", "A", "I">>
S_CoercedFromText == <<"c", "o", "e", "r", "c", "e", "d", " ", "f", "r", "o", "m", " ",
                       "t", "e", "x", "t">>
\* "Circuit ", "Interval ", " sets"
S_CircuitSp == <<"C", "i", "r", "c", "u", "i", "t", " ">>
S_IntervalSp == <<"I", "n", "t", "e", "r", "v", "a", "l", " ">>
S_SpSets == <<" ", "s", "e", "t", "s">>

\* /(\d+)\s*min/i
RE_dMin == <<Cap, Plus("digit"), End, Star("space"), Lit(S_min)>>
\* /(\d+)\s*rounds?/i
RE_dRounds == <<Cap, Plus("digit"), End, Star("space"), Lit(S_round), Opt(S_s)>>
\* /(\d+)\s*s(?:ec)?\s*work/i
RE_dsWork == <<Cap, Plus("digit"), End, Star("space"), Lit(S_s), Opt(S_ec),
               Star("space"), Lit(S_work)>>
\* /(\d+)\s*s(?:ec)?\s*rest/i
RE_dsRest == <<Cap, Plus("digit"), End, Star("space"), Lit(S_s), Opt(S_ec),
               Star("space"), Lit(S_rest)>>
\* /odd[^a-z0-9]+([^.;\n]+)/i and /even[^a-z0-9]+([^.;\n]+)/i
RE_oddA == <<Lit(S_odd), Plus("nonalnum"), Cap, Plus("clause"), End>>
RE_evenA == <<Lit(S_even), Plus("nonalnum"), Cap, Plus("clause"), End>>

\* parseInt(text.match(re)?.[1] || dflt)
IntFromText(re, txt, dflt) == Num(parseInt(Or(Capture(re, txt), Str(dflt)).s))

WorkPlaceholder == Arr(<<Obj([name |-> Str(S_Work)])>>)

CircuitPlaceholder == Arr(<<Obj([name |-> Str(S_Work), seconds |-> Num(30)])>>)

\* array.reduce((sum, x) => sum + F(x), 0); a TypeError when v has no reduce
RECURSIVE SumTo(_, _, _)
SumTo(a, F(_), n) ==
  IF n = 0 THEN Num(0) ELSE Add(SumTo(a, F, n - 1), F(a[n]))

SumOver(v, F(_)) == IF v.k # "array" THEN Thrown ELSE SumTo(v.a, F, Len(v.a))

\* ex.seconds || 30
ExerciseSeconds(ex) == Or(Get(ex, "seconds"), Num(30))

\* step.seconds + (step.rest_after_seconds || 0)
StepSeconds(step) == Add(Get(step, "seconds"), Or(Get(step, "rest_after_seconds"), Num(0)))

\* a circuit timed without the rests between its rounds
CircuitMinutesNoRest(rounds, exercises, restBetween) ==
  CeilDiv(Mul(rounds, SumOver(exercises, ExerciseSeconds)), 60)

\* Math.ceil((rounds * exercises.reduce(...) + (rounds - 1) * restBetween) / 60)
CircuitMinutes(rounds, exercises, restBetween) ==
  CeilDiv(Add(Mul(rounds, SumOver(exercises, ExerciseSeconds)),
              Mul(Sub(rounds, Num(1)), restBetween)), 60)

\* block.sequence && block.sequence.length > 0
HasSequence(o) ==
  LET sq == Get(o, "sequence")
  IN IF sq = Thrown THEN Thrown
     ELSE IF ~Truthy(sq) THEN Bool(FALSE) ELSE Gt(Get(sq, "length"), 0)

\* the callback of ai.blocks.map: one block re-validated
ValidBlock(block, txt) ==
  LET type == Get(block, "type") IN
  IF type = Thrown THEN Thrown
  ELSE IF Is(type, S_EMOM) THEN
    ObjectOf([type |-> Str(S_EMOM),
              minutes |-> Or(Get(block, "minutes"), IntFromText(RE_dMin, txt, S_20)),
              instructions |-> Or(Get(block, "instructions"), WorkPlaceholder)])
  ELSE IF Is(type, S_TABATA) THEN
    ObjectOf([type |-> Str(S_TABATA),
              rounds |-> Or(Get(block, "rounds"), Num(8)),
              work_seconds |-> Or(Get(block, "work_seconds"), Num(20)),
              rest_seconds |-> Or(Get(block, "rest_seconds"), Num(10)),
              exercise |-> Or(Get(block, "exercise"), Str(S_Mixed))])
  ELSE IF Is(type, S_CIRCUIT) THEN
    ObjectOf([type |-> Str(S_CIRCUIT),
              rounds |-> Or(Or(Get(block, "rounds"), Get(block, "sets")), Num(5)),
              exercises |-> Or(Or(Get(block, "exercises"), Get(block, "sequence")),
                               CircuitPlaceholder),
              rest_between_rounds_seconds |->
                Or(Or(Get(block, "rest_between_rounds_seconds"), Get(block, "rest_seconds")),
                   Num(0))])
  ELSE IF Is(type, S_INTERVAL) THEN
    IF HasSequence(block).b
    THEN ObjectOf([type |-> Str(S_INTERVAL),
                   work_seconds |->
                     Or(Or(Get(block, "work_seconds"),
                           OptGet(First(Get(block, "sequence")), "seconds")), Num(20)),
                   rest_seconds |-> Or(Get(block, "rest_seconds"), Num(0)),
                   sets |-> Or(Or(Get(block, "sets"), Get(block, "rounds")), Num(1)),
                   sequence |-> Get(block, "sequence")])
    ELSE ObjectOf([type |-> Str(S_INTERVAL),
                   work_seconds |-> Or(Get(block, "work_seconds"), Num(30)),
                   rest_seconds |-> Or(Get(block, "rest_seconds"), Num(15)),
                   sets |-> Or(Or(Get(block, "sets"), Get(block, "rounds")), Num(1))])
  ELSE block

\* what the reduce callback adds to total for one block
BlockMinutes(block) ==
  LET type == Get(block, "type") IN
  IF type = Thrown THEN Thrown
  ELSE IF Is(type, S_EMOM) THEN Get(block, "minutes")
  ELSE IF Is(type, S_TABATA) THEN
    CeilDiv(Mul(Get(block, "rounds"),
                Add(Get(block, "work_seconds"), Get(block, "rest_seconds"))), 60)
  ELSE IF Is(type, S_CIRCUIT) THEN
    CircuitMinutes(Get(block, "rounds"), Get(block, "exercises"),
                   Get(block, "rest_between_rounds_seconds"))
  ELSE IF Is(type, S_INTERVAL) THEN
    IF Truthy(Get(block, "sequence"))
    THEN CeilDiv(Mul(Get(block, "sets"), SumOver(Get(block, "sequence"), StepSeconds)), 60)
    ELSE CeilDiv(Mul(Get(block, "sets"),
                     Add(Get(block, "work_seconds"), Get(block, "rest_seconds"))), 60)
  ELSE Num(0)

\* Math.ceil(validBlocks.reduce(..., 0)): the sum is of whole minutes already
RecomputedMinutes(validBlocks) == SumOver(validBlocks, BlockMinutes)

\* the canonical branch: blocks re-validated, the input total kept when truthy
Canonical(ai, txt) ==
  LET validBlocks == Map(Get(ai, "blocks"), LAMBDA block : ValidBlock(block, txt))
      given == Get(ai, "total_minutes")
  IN IF validBlocks = Thrown THEN Thrown
     ELSE Spread(ai, [blocks |-> validBlocks,
                      total_minutes |-> IF Truthy(given) THEN given
                                        ELSE RecomputedMinutes(validBlocks)])

\* f(...v): the elements of a list, the characters of a string, else a TypeError
SpreadArgs(v) ==
  CASE v.k = "array" -> v
    [] v.k = "string" -> Arr([i \in DOMAIN v.s |-> Str(<<v.s[i]>>)])
    [] OTHER -> Thrown

\* ai.title || fallback
TitleOr(ai, fallback) ==
  IF Truthy(Get(ai, "title")) THEN Get(ai, "title") ELSE Str(fallback)

DebugAI(mode, notes) ==
  Obj([used_ai |-> Bool(TRUE), inferred_mode |-> Str(mode), notes |-> Str(notes)])

RawEMOM(ai, txt) ==
  LET minutes == Or(Get(ai, "minutes"), IntFromText(RE_dMin, txt, S_20))
      instructions ==
        IF Truthy(Get(ai, "instructions")) THEN SpreadArgs(Get(ai, "instructions"))
        ELSE IF Truthy(Get(ai, "sequence"))
        THEN Map(Get(ai, "sequence"),
                 LAMBDA item : ObjectOf([name |-> Or(Get(item, "name"), Str(S_Work))]))
        ELSE WorkPlaceholder
  IN IF instructions = Thrown THEN Thrown
     ELSE ObjectOf([title |-> TitleOr(ai, Show(minutes) \o S_minEMOM),
                    total_minutes |-> minutes,
                    blocks |-> Arr(<<ObjectOf([type |-> Str(S_EMOM), minutes |-> minutes,
                                               instructions |-> instructions])>>),
                    cues |-> Cues(Ge(minutes, 10)),
                    debug |-> DebugAI(S_EMOM, S_NormalizedFromRawAI)])

\* `Tabata ${rounds}x${work}/${rest}`
TabataTitle(rounds, work, rest) ==
  S_TabataSp \o Show(rounds) \o S_x \o Show(work) \o S_slash \o Show(rest)

TabataSchedule(title, rounds, work, rest, exercise, notes) ==
  ObjectOf([title |-> title,
            total_minutes |-> CeilDiv(Mul(rounds, Add(work, rest)), 60),
            blocks |-> Arr(<<ObjectOf([type |-> Str(S_TABATA), rounds |-> rounds,
                                       work_seconds |-> work, rest_seconds |-> rest,
                                       exercise |-> exercise])>>),
            cues |-> Cues(Ge(rounds, 8)),
            debug |-> DebugAI(S_TABATA, notes)])

RawTABATA(ai) ==
  LET rounds == Or(Or(Get(ai, "rounds"), Get(ai, "sets")), Num(8))
      work == Or(Or(Get(ai, "work_seconds"), Get(ai, "work")), Num(20))
      rest == Or(Or(Get(ai, "rest_seconds"), Get(ai, "rest")), Num(10))
  IN TabataSchedule(TitleOr(ai, TabataTitle(rounds, work, rest)), rounds, work, rest,
                    Or(Get(ai, "exercise"), Str(S_Mixed)), S_NormalizedFromRawAI)

RawCIRCUIT(ai) ==
  LET rounds == Or(Or(Get(ai, "rounds"), Get(ai, "sets")), Num(5))
      exercises == Or(Or(Get(ai, "exercises"), Get(ai, "sequence")), CircuitPlaceholder)
      restBetween == Or(Or(Get(ai, "rest_between_rounds_seconds"), Get(ai, "rest_seconds")),
                        Num(0))
  IN ObjectOf([title |-> TitleOr(ai, S_CircuitSp \o Show(rounds) \o S_SpRounds),
               total_minutes |-> CircuitMinutes(rounds, exercises, restBetween),
               blocks |-> Arr(<<ObjectOf([type |-> Str(S_CIRCUIT), rounds |-> rounds,
                                          exercises |-> exercises,
                                          rest_between_rounds_seconds |-> restBetween])>>),
               cues |-> Cues(Ge(rounds, 8)),
               debug |-> DebugAI(S_CIRCUIT, S_NormalizedFromRawAI)])

RawINTERVAL(ai, txt) ==
  LET sets == Or(Or(Get(ai, "sets"), Get(ai, "rounds")), Num(1))
      work == Or(Or(Get(ai, "work_seconds"), Get(ai, "work")), Num(30))
      rest == Or(Or(Get(ai, "rest_seconds"), Get(ai, "rest")), Num(15))
      sequence == analyzeAndFixSequence(Get(ai, "sequence"), txt)
  IN IF HasSequence(ai).b
     THEN IF sequence = Thrown THEN Thrown
          ELSE ObjectOf([title |-> TitleOr(ai, S_IntervalSp \o Show(sets) \o S_SpSets),
                         total_minutes |->
                           CeilDiv(Mul(sets, SumOver(sequence, StepSeconds)), 60),
                         blocks |-> Arr(<<ObjectOf([type |-> Str(S_INTERVAL),
                                                    work_seconds |-> work,
                                                    rest_seconds |-> Num(0), sets |-> sets,
                                                    sequence |-> sequence])>>),
                         cues |-> Cues(Ge(sets, 8)),
                         debug |-> DebugAI(S_INTERVALseq, S_NormalizedFromRawAI)])
     ELSE ObjectOf([title |-> TitleOr(ai, Show(sets) \o S_x \o Show(work) \o S_slash
                                          \o Show(rest) \o S_SpIntervals),
                    total_minutes |-> CeilDiv(Mul(sets, Add(work, rest)), 60),
                    blocks |-> Arr(<<ObjectOf([type |-> Str(S_INTERVAL),
                                               work_seconds |-> work,
                                               rest_seconds |-> rest, sets |-> sets])>>),
                    cues |-> Cues(Ge(sets, 10)),
                    debug |-> DebugAI(S_INTERVAL, S_NormalizedFromRawAI)])

\* text coercion, EMOM: the minute count defaults to 20
CoerceEMOM(txt) ==
  LET minutes == IntFromText(RE_dMin, txt, S_20)
      odd == Trimmed(Capture(RE_oddA, txt))
      even == Trimmed(Capture(RE_evenA, txt))
  IN Obj([title |-> Str(Show(minutes) \o S_minEMOMWorkout),
          total_minutes |-> minutes,
          blocks |-> Arr(<<Obj([type |-> Str(S_EMOM), minutes |-> minutes,
                                instructions |-> Instructions(odd, even)])>>),
          cues |-> Cues(Ge(minutes, 10)),
          debug |-> DebugAI(S_EMOM, S_CoercedFromText)])

\* text coercion, Tabata: rounds, work and rest default to 8, 20 and 10
CoerceTABATA(txt) ==
  LET rounds == IntFromText(RE_dRounds, txt, S_8)
      work == IntFromText(RE_dsWork, txt, S_20)
      rest == IntFromText(RE_dsRest, txt, S_10)
  IN TabataSchedule(Str(TabataTitle(rounds, work, rest)), rounds, work, rest,
                    Str(S_Mixed), S_CoercedFromText)

\* the body of the try block; Thrown is any exception raised inside it
NormalizeBody(ai, txt) ==
  IF Truthy(ai) /\ isString(Get(ai, "title")) /\ isArray(Get(ai, "blocks"))
  THEN Canonical(ai, txt)
  ELSE IF Truthy(ai) /\ Is(Get(ai, "type"), S_EMOM) THEN RawEMOM(ai, txt)
  ELSE IF Truthy(ai) /\ Is(Get(ai, "type"), S_TABATA) THEN RawTABATA(ai)
  ELSE IF Truthy(ai) /\ Is(Get(ai, "type"), S_CIRCUIT) THEN RawCIRCUIT(ai)
  ELSE IF Truthy(ai) /\ Is(Get(ai, "type"), S_INTERVAL) THEN RawINTERVAL(ai, txt)
  ELSE IF hasEMOMCue(txt) THEN CoerceEMOM(txt)
  ELSE IF test(RE_tabata, txt) THEN CoerceTABATA(txt)
  ELSE Thrown

\* try { ... } catch { return null }
normalizeAIToWorkoutJSON(ai, txt) ==
  LET r == NormalizeBody(ai, txt) IN IF r = Thrown THEN Null ELSE r

(***************************************************************************)
(* The response normalizer of server.js: no try block around its body, so  *)
(* Thrown is what its caller sees                                          *)
(***************************************************************************)

S_Intervals == <<"I", "n", "t", "e", "r", "v", "a", "l", "s">>
S_Exercise == <<"E", "x", "e", "r", "c", "i", "s", "e">>
S_Circuit == <<"C", "i", "r", "c", "u", "i", "t">>
S_NormalizedFromAI == <<"N", "o", "r", "m", "a", "l", "i", "z", "e", "d", " ",
                        "f", "r", "o", "m", " ", "A", "I">>

\* ai?.type === t || ai?.workout_type === t
HasType(ai, t) == Is(OptGet(ai, "type"), t) \/ Is(OptGet(ai, "workout_type"), t)

\* the for-of loop over ai.exercises: a rest item's duration is attached to
\* the step before it; <<Thrown>> when an item is null or undefined
RECURSIVE SeqFrom(_, _)
SeqFrom(a, n) ==
  IF n = 0 THEN <<>>
  ELSE LET seq == SeqFrom(a, n - 1)
           ex == a[n]
           name == Or(Or(Get(ex, "name"), Get(ex, "exercise")), Str(S_Work))
           secs == Or(Or(Get(ex, "duration_seconds"), Get(ex, "duration")), Num(30))
       IN IF seq = <<Thrown>> \/ name = Thrown THEN <<Thrown>>
          ELSE IF test(RE_rest, name.s)
          THEN IF Len(seq) > 0
               THEN [seq EXCEPT ![Len(seq)] = Spread(@, [rest_after_seconds |-> secs])]
               ELSE seq
          ELSE Append(seq, Obj([name |-> name, seconds |-> secs]))

\* ai.total_minutes || computed
TotalOr(ai, computed) ==
  IF Truthy(Get(ai, "total_minutes")) THEN Get(ai, "total_minutes") ELSE computed

DebugMode(mode) == Obj([used_ai |-> Bool(TRUE), inferred_mode |-> Str(mode)])

ServerINTERVAL(ai) ==
  LET rounds == Or(Get(ai, "rounds"), Num(10))
      seq == ArrayOf(SeqFrom(Get(ai, "exercises").a, Len(Get(ai, "exercises").a)))
  IN IF seq = Thrown THEN Thrown
     ELSE ObjectOf([title |-> Or(Get(ai, "title"), Str(S_Intervals)),
                    total_minutes |->
                      TotalOr(ai, CeilDiv(Mul(rounds, SumOver(seq, StepSeconds)), 60)),
                    blocks |-> Arr(<<ObjectOf([type |-> Str(S_INTERVAL),
                                               work_seconds |->
                                                 Or(OptGet(First(seq), "seconds"), Num(30)),
                                               rest_seconds |-> Num(0), sets |-> rounds,
                                               sequence |-> seq])>>),
                    cues |-> Cues(Ge(rounds, 8)),
                    debug |-> DebugMode(S_INTERVALseq)])

ServerEMOM(ai, txt) ==
  LET minutes == Or(Or(OptGet(ai, "total_minutes"), num(Capture(RE_minutes, txt))), Num(20))
      oe == extractOddEven(txt)
      title == OptGet(ai, "title")
  IN ObjectOf([title |-> IF Truthy(title) THEN title ELSE Str(Show(minutes) \o S_minEMOM),
               total_minutes |-> minutes,
               blocks |-> Arr(<<Obj([type |-> Str(S_EMOM), minutes |-> minutes,
                                     instructions |-> Instructions(oe.odd, oe.even)])>>),
               cues |-> Cues(Ge(minutes, 10)),
               debug |-> DebugAI(S_EMOM, S_NormalizedFromAI)])

\* the callback of (ai.exercises || []).map
CircuitExercise(ex) ==
  ObjectOf([name |-> Or(Or(Get(ex, "name"), Get(ex, "exercise")), Str(S_Exercise)),
            seconds |-> Or(Or(Get(ex, "duration_seconds"), Get(ex, "duration")), Num(30)),
            reps |-> Or(Get(ex, "reps"), Undef),
            rest_after_seconds |-> Or(Get(ex, "rest_after_seconds"), Num(0))])

\* (b.seconds || 30) + (b.rest_after_seconds || 0)
CircuitStepSeconds(b) ==
  Add(Or(Get(b, "seconds"), Num(30)), Or(Get(b, "rest_after_seconds"), Num(0)))

ServerCIRCUIT(ai) ==
  LET rounds == Or(Get(ai, "rounds"), Num(3))
      exercises == Map(Or(Get(ai, "exercises"), Arr(<<>>)), CircuitExercise)
  IN IF exercises = Thrown THEN Thrown
     ELSE ObjectOf([title |-> Or(Get(ai, "title"), Str(S_Circuit)),
                    total_minutes |->
                      TotalOr(ai, CeilDiv(Mul(rounds, SumOver(exercises, CircuitStepSeconds)),
                                          60)),
                    blocks |-> Arr(<<ObjectOf([type |-> Str(S_CIRCUIT), rounds |-> rounds,
                                               exercises |-> exercises,
                                               rest_between_rounds_seconds |-> Num(0)])>>),
                    cues |-> Cues(Ge(rounds, 5)),
                    debug |-> DebugMode(S_CIRCUIT)])

ServerTABATA(ai) ==
  LET rounds == Or(Get(ai, "rounds"), Num(8))
      work == Or(Or(Get(ai, "work_seconds"), Get(ai, "work")), Num(20))
      rest == Or(Or(Get(ai, "rest_seconds"), Get(ai, "rest")), Num(10))
  IN ObjectOf([title |-> TitleOr(ai, TabataTitle(rounds, work, rest)),
               total_minutes |-> TotalOr(ai, CeilDiv(Mul(rounds, Add(work, rest)), 60)),
               blocks |-> Arr(<<ObjectOf([type |-> Str(S_TABATA), rounds |-> rounds,
                                          work_seconds |-> work, rest_seconds |-> rest,
                                          exercise |-> Str(S_Tabata)])>>),
               cues |-> Cues(Ge(rounds, 8)),
               debug |-> DebugMode(S_TABATA)])

normalizeAIToWorkoutJSON_server(ai, txt) ==
  IF Truthy(ai) /\ isArray(Get(ai, "blocks")) THEN ai
  ELSE IF HasType(ai, S_INTERVAL) /\ isArray(Get(ai, "exercises")) THEN ServerINTERVAL(ai)
  ELSE IF hasEMOMCue(txt) THEN ServerEMOM(ai, txt)
  ELSE IF HasType(ai, S_CIRCUIT) THEN ServerCIRCUIT(ai)
  ELSE IF HasType(ai, S_TABATA) THEN ServerTABATA(ai)
  ELSE Null

(***************************************************************************)
(* The response normalizer of README.md, first listing: a branch for the   *)
(* flat timeline in front of the body above                                *)
(***************************************************************************)

S_round_rest == <<"r", "o", "u", "n", "d", "_", "r", "e", "s", "t">>
S_SpRoundsCircuit == <<" ", "R", "o", "u", "n", "d", "s", " ", "C", "i", "r", "c", "u", "i", "t">>
S_SpRoundsInterval == <<" ", "R", "o", "u", "n", "d", "s", " ", "I", "n", "t", "e", "r", "v", "a", "l">>
S_ConvertedFromTimeline == <<"c", "o", "n", "v", "e", "r", "t", "e", "d", " ", "f", "r", "o", "m", " ", "t", "i", "m", "e", "l", "i", "n", "e", " ", "f", "o", "r", "m", "a", "t">>

\* ai.timeline.filter(e => e.kind === kind)
EventsOfKind(timeline, kind) ==
  SelectSeq(timeline, LAMBDA e : Is(Get(e, "kind"), kind))

\* a count of the work events where the largest round number is meant
RECURSIVE RoundsCounted(_)
RoundsCounted(workEvents) ==
  IF Len(workEvents) = 0 THEN 0 ELSE 1 + RoundsCounted(Tail(workEvents))

\* Math.max(...workEvents.map(e => e.round || 1)), of round numbers
RECURSIVE MaxRound(_)
MaxRound(workEvents) ==
  IF Len(workEvents) = 1 THEN Or(Get(workEvents[1], "round"), Num(1)).n
  ELSE IF Or(Get(workEvents[1], "round"), Num(1)).n >= MaxRound(Tail(workEvents))
       THEN Or(Get(workEvents[1], "round"), Num(1)).n
       ELSE MaxRound(Tail(workEvents))

\* { name: exercise.label || exercise.name || "Work", seconds: exercise.seconds || 45 }
TimelineExercise(e) ==
  Obj([name |-> Or(Or(Get(e, "label"), Get(e, "name")), Str(S_Work)),
       seconds |-> Or(Get(e, "seconds"), Num(45))])

\* workEvents.filter(e => e.round === 1), each as an exercise
Round1Exercises(workEvents) ==
  [i \in DOMAIN SelectSeq(workEvents, LAMBDA e : Get(e, "round") = Num(1)) |->
     TimelineExercise(SelectSeq(workEvents, LAMBDA e : Get(e, "round") = Num(1))[i])]

DebugTimeline(mode) ==
  Obj([used_ai |-> Bool(TRUE), inferred_mode |-> Str(mode),
       notes |-> Str(S_ConvertedFromTimeline)])

\* the circuit of a timeline with a round rest
TimelineCIRCUIT(ai, rounds, workEvents, roundRestDuration) ==
  ObjectOf([title |-> Or(Get(ai, "title"), Str(numToString(rounds) \o S_SpRoundsCircuit)),
            total_minutes |-> CeilDiv(Get(ai, "total_seconds"), 60),
            blocks |-> Arr(<<Obj([type |-> Str(S_CIRCUIT), rounds |-> Num(rounds),
                                  exercises |-> Arr(Round1Exercises(workEvents)),
                                  rest_between_rounds_seconds |-> roundRestDuration])>>),
            cues |-> Cues(Bool(rounds >= 8)),
            debug |-> DebugTimeline(S_CIRCUIT)])

\* the simple interval of a timeline without one
TimelineINTERVAL(ai, rounds, workDuration, restDuration) ==
  ObjectOf([title |-> Or(Get(ai, "title"), Str(numToString(rounds) \o S_SpRoundsInterval)),
            total_minutes |-> CeilDiv(Get(ai, "total_seconds"), 60),
            blocks |-> Arr(<<Obj([type |-> Str(S_INTERVAL), work_seconds |-> workDuration,
                                  rest_seconds |-> restDuration, sets |-> Num(rounds)])>>),
            cues |-> Cues(Bool(rounds >= 8)),
            debug |-> DebugTimeline(S_INTERVAL)])

\* if (workEvents.length > 0) { ... }, given the three filtered lists
TimelineOf(ai, workEvents, restEvents, roundRestEvents) ==
  IF Gt(Or(OptGet(First(Arr(roundRestEvents)), "seconds"), Num(0)), 0).b
  THEN TimelineCIRCUIT(ai, MaxRound(workEvents), workEvents,
                       Or(OptGet(First(Arr(roundRestEvents)), "seconds"), Num(0)))
  ELSE TimelineINTERVAL(ai, MaxRound(workEvents),
                        Or(Get(workEvents[1], "seconds"), Num(45)),
                        Or(OptGet(First(Arr(restEvents)), "seconds"), Num(15)))

\* whether the timeline branch returns: ai.timeline is a list with a work event
TimelineTaken(ai) ==
  /\ Truthy(ai) /\ isArray(Get(ai, "timeline"))
  /\ \A i \in DOMAIN ai.f.timeline.a : Get(ai.f.timeline.a[i], "kind") # Thrown
  /\ Len(EventsOfKind(ai.f.timeline.a, S_work)) > 0

\* reading .kind of an event that is null or undefined throws inside filter
TimelineThrows(ai) ==
  /\ Truthy(ai) /\ isArray(Get(ai, "timeline"))
  /\ \E i \in DOMAIN ai.f.timeline.a : Get(ai.f.timeline.a[i], "kind") = Thrown

\* the body of the try block of README.md
NormalizeBody_readme(ai, txt) ==
  IF TimelineThrows(ai) THEN Thrown
  ELSE IF TimelineTaken(ai)
  THEN TimelineOf(ai, EventsOfKind(ai.f.timeline.a, S_work),
                  EventsOfKind(ai.f.timeline.a, S_rest),
                  EventsOfKind(ai.f.timeline.a, S_round_rest))
  ELSE NormalizeBody(ai, txt)

\* catch (error) { return null }
NullIfThrown(r) == IF r = Thrown THEN Null ELSE r

normalizeAIToWorkoutJSON_readme(ai, txt) == NullIfThrown(NormalizeBody_readme(ai, txt))

(***************************************************************************)
(* Inputs: request texts and provider outputs                              *)
(***************************************************************************)

W_EMOM == <<"E", "M", "O", "M">>
W_everyMinute == <<"e", "v", "e", "r", "y", " ", "m", "i", "n", "u", "t", "e">>
W_tabata == <<"t", "a", "b", "a", "t", "a">>
W_10min == <<"1", "0", " ", "m", "i", "n">>
W_0min == <<"0", " ", "m", "i", "n">>
W_2rounds == <<"2", " ", "r", "o", "u", "n", "d", "s">>
W_0s == <<"0", "s">>
W_30s == <<"3", "0", "s">>
W_rest == <<"r", "e", "s", "t">>
W_hello == <<"h", "e", "l", "l", "o">>

Words == {W_EMOM, W_everyMinute, W_tabata, W_10min, W_0min, W_2rounds, W_0s, W_30s, W_rest, W_hello}

\* the longest request text, in words
MaxWords == 3

RECURSIVE Join(_)
Join(ws) ==
  IF Len(ws) = 0 THEN <<>>
  ELSE IF Len(ws) = 1 THEN ws[1]
  ELSE ws[1] \o <<" ">> \o Join(Tail(ws))

\* every text of at most MaxWords words, the empty text included
Texts == {Join(ws) : ws \in UNION {[1..n -> Words] : n \in 0..MaxWords}}

S_Demo == <<"D", "e", "m", "o">>
S_burpees == <<"b", "u", "r", "p", "e", "e", "s">>
S_Rest == <<"R", "e", "s", "t">>
S_AMRAP == <<"A", "M", "R", "A", "P">>
S_x1 == <<"x">>
S_Burpees == <<"B", "u", "r", "p", "e", "e", "s">>
S_Squats == <<"S", "q", "u", "a", "t", "s">>
S_restLow == <<"r", "e", "s", "t">>

Canon(blocks) == Obj([title |-> Str(S_Demo), blocks |-> Arr(blocks)])
CanonTotal(blocks, total) ==
  Obj([title |-> Str(S_Demo), blocks |-> Arr(blocks), total_minutes |-> Num(total)])

B_Tabata ==
  Obj([type |-> Str(S_TABATA), rounds |-> Num(8), work_seconds |-> Num(20),
       rest_seconds |-> Num(10), exercise |-> Str(S_burpees)])
B_IntervalZeroRest ==
  Obj([type |-> Str(S_INTERVAL), sets |-> Num(4), work_seconds |-> Num(30),
       rest_seconds |-> Num(0)])
B_EMOM ==
  Obj([type |-> Str(S_EMOM), minutes |-> Num(10),
       instructions |-> Arr(<<Obj([name |-> Str(S_burpees)])>>)])
B_Circuit ==
  Obj([type |-> Str(S_CIRCUIT), rounds |-> Num(3),
       exercises |-> Arr(<<Obj([name |-> Str(S_burpees), seconds |-> Num(40)])>>),
       rest_between_rounds_seconds |-> Num(20)])
B_Sequence ==
  Obj([type |-> Str(S_INTERVAL), sets |-> Num(2), work_seconds |-> Num(20),
       rest_seconds |-> Num(0),
       sequence |-> Arr(<<Obj([name |-> Str(S_burpees), seconds |-> Num(20),
                               rest_after_seconds |-> Num(10)])>>)])
B_CircuitNoList ==
  Obj([type |-> Str(S_CIRCUIT), rounds |-> Num(3), exercises |-> Str(S_x1),
       rest_between_rounds_seconds |-> Num(0)])

B_IntervalShort ==
  Obj([type |-> Str(S_INTERVAL), sets |-> Num(1), work_seconds |-> Num(20),
       rest_seconds |-> Num(10)])

\* a work step and a rest step, in the field names the provider uses
WorkRest ==
  Arr(<<Obj([name |-> Str(S_burpees), duration |-> Num(20)]),
        Obj([name |-> Str(S_Rest), duration |-> Num(10)])>>)

\* JSON of the canonical shape, well formed or not
CanonicalObjects ==
  {CanonTotal(<<B_Tabata>>, 4), CanonTotal(<<B_Tabata>>, 99), Canon(<<B_Tabata>>),
   CanonTotal(<<B_IntervalZeroRest>>, 2), Canon(<<B_EMOM>>), Canon(<<B_Circuit>>),
   Canon(<<B_Sequence>>), Canon(<<B_Tabata, B_EMOM>>), Canon(<<>>),
   Canon(<<B_Circuit, B_Sequence, B_IntervalShort, B_IntervalShort>>),
   Canon(<<Obj([type |-> Str(S_AMRAP)])>>), Canon(<<Null>>), Canon(<<B_CircuitNoList>>),
   Obj([blocks |-> Arr(<<B_Tabata>>)])}

\* JSON of one raw archetype
RawObjects ==
  {Obj([type |-> Str(S_EMOM), minutes |-> Num(10),
        instructions |-> Arr(<<Obj([name |-> Str(S_burpees)])>>)]),
   Obj([type |-> Str(S_EMOM), instructions |-> Num(5)]),
   Obj([type |-> Str(S_EMOM), sequence |-> WorkRest]),
   Obj([type |-> Str(S_TABATA)]),
   Obj([type |-> Str(S_TABATA), rounds |-> Num(4), work_seconds |-> Num(30),
        rest_seconds |-> Num(30)]),
   Obj([type |-> Str(S_CIRCUIT),
        exercises |-> Arr(<<Obj([name |-> Str(S_burpees), seconds |-> Num(40)])>>)]),
   Obj([type |-> Str(S_CIRCUIT), exercises |-> Str(S_x1)]),
   Obj([workout_type |-> Str(S_CIRCUIT), rounds |-> Num(2)]),
   Obj([type |-> Str(S_INTERVAL), sets |-> Num(4)]),
   Obj([type |-> Str(S_INTERVAL), sets |-> Num(2), sequence |-> WorkRest]),
   Obj([type |-> Str(S_INTERVAL), sequence |-> Str(S_x1)]),
   Obj([type |-> Str(S_INTERVAL), sequence |-> Arr(<<Null>>)]),
   Obj([type |-> Str(S_INTERVAL), exercises |-> WorkRest])}

\* JSON of no shape the normalizer knows, and JSON that is no object
OtherValues ==
  {Obj(<<>>), Null, Num(5), Str(S_x1), Bool(TRUE), Arr(<<>>)}

\* everything JSON.parse may return here
LooseObjects == CanonicalObjects \cup RawObjects \cup OtherValues

(***************************************************************************)
(* The POST /generate handler                                              *)
(***************************************************************************)

Variants == {"part_000", "server.js"}

\* openai.chat.completions.create rejected
Rejected == [k |-> "rejected"]
\* JSON.parse threw on the content
SyntaxError == [k |-> "syntaxerror"]

\* the normalizer of the copy that serves
Normalize(v, ai, txt) ==
  IF v = "part_000" THEN normalizeAIToWorkoutJSON(ai, txt)
  ELSE normalizeAIToWorkoutJSON_server(ai, txt)

\* json.debug = { ...(json.debug||{}), used_ai: true, notes: "Raw AI shape" };
\* the value reply.send(json) then serializes.  Reading .debug of null is a
\* TypeError, and so is the assignment to a primitive in module (strict) code;
\* a list takes the property, which its JSON body does not carry
WithRawDebug(j) ==
  CASE j.k = "object" ->
         Spread(j, [debug |-> Spread(Or(Get(j, "debug"), Obj(<<>>)),
                                     [used_ai |-> Bool(TRUE), notes |-> Str(S_RawAIShape)])])
    [] j.k = "array" -> j
    [] OTHER -> Thrown

\* the hardcoded schedule of the catch block
fb ==
  Obj([title |-> Str(S_FallbackTitle),
       total_minutes |-> Num(20),
       blocks |-> Arr(<<Obj([type |-> Str(S_INTERVAL), work_seconds |-> Num(40),
                             rest_seconds |-> Num(20), sets |-> Num(20)])>>),
       cues |-> Cues(Bool(TRUE)),
       debug |-> Obj([used_ai |-> Bool(FALSE), inferred_mode |-> Str(S_FALLBACK),
                      notes |-> Str(S_AIParseFailed)])])

\* a catch block that asks the provider once more before it gives up
CatchRetrying ==
  /\ det' = deterministicParse(text)
  /\ escaped' = (det' = Thrown)
  /\ response' = IF det' = Thrown THEN Undef ELSE IF Truthy(det') THEN det' ELSE fb
  /\ path' = IF det' = Thrown THEN "none" ELSE IF Truthy(det') THEN "det" ELSE "fallback"
  /\ calls' = calls + 1

\* catch (aiError) { ... }: the extractor chain, then the hardcoded schedule;
\* no call of the provider in it
Catch ==
  /\ calls' = calls
  /\ det' = deterministicParse(text)
  /\ escaped' = (det' = Thrown)
  /\ response' = IF det' = Thrown THEN Undef ELSE IF Truthy(det') THEN det' ELSE fb
  /\ path' = IF det' = Thrown THEN "none" ELSE IF Truthy(det') THEN "det" ELSE "fallback"

\* the handler up to its await: the one openai.chat.completions.create call
Request(t, v) ==
  /\ pc = "idle"
  /\ pc' = "awaiting"
  /\ text' = t
  /\ variant' = v
  /\ calls' = calls + 1
  /\ UNCHANGED <<json, normalized, det, path, response, escaped, reqs, rawSeq, fixedSeq>>

\* the provider call throws: network failure, timeout, provider error
ProviderRejects ==
  /\ pc = "awaiting"
  /\ pc' = "sent"
  /\ json' = Rejected
  /\ Catch
  /\ UNCHANGED <<variant, text, normalized, reqs, rawSeq, fixedSeq>>

\* the provider answers with content that is no JSON
ProviderRepliesText ==
  /\ pc = "awaiting"
  /\ pc' = "sent"
  /\ json' = SyntaxError
  /\ Catch
  /\ UNCHANGED <<variant, text, normalized, reqs, rawSeq, fixedSeq>>

\* the provider answers with content that parses to j: the rest of the try
\* block, and the catch block when it throws
ProviderRepliesJSON(j) ==
  /\ pc = "awaiting"
  /\ pc' = "sent"
  /\ json' = j
  /\ normalized' = Normalize(variant, j, text)
  /\ IF normalized' # Thrown /\ Truthy(normalized')
     THEN /\ response' = normalized'
          /\ path' = "normalized"
          /\ UNCHANGED <<det, escaped, calls>>
     ELSE IF normalized' # Thrown /\ WithRawDebug(j) # Thrown
     THEN /\ response' = WithRawDebug(j)
          /\ path' = "raw"
          /\ UNCHANGED <<det, escaped, calls>>
     ELSE Catch
  /\ UNCHANGED <<variant, text, reqs, rawSeq, fixedSeq>>

\* the reply is on the wire and the handler has returned
Done ==
  /\ pc = "sent"
  /\ pc' = "idle"
  /\ text' = <<>>
  /\ variant' = "part_000"
  /\ json' = Undef
  /\ normalized' = Undef
  /\ det' = Undef
  /\ response' = Undef
  /\ path' = "none"
  /\ escaped' = FALSE
  /\ calls' = 0
  /\ UNCHANGED <<reqs, rawSeq, fixedSeq>>

Init ==
  /\ pc = "idle"
  /\ text = <<>>
  /\ variant = "part_000"
  /\ json = Undef
  /\ normalized = Undef
  /\ det = Undef
  /\ response = Undef
  /\ path = "none"
  /\ escaped = FALSE
  /\ calls = 0
  /\ reqs = <<>>
  /\ rawSeq = Undef
  /\ fixedSeq = Undef

Next ==
  \/ \E t \in Texts, v \in Variants : Request(t, v)
  \/ ProviderRejects
  \/ ProviderRepliesText
  \/ \E j \in LooseObjects : ProviderRepliesJSON(j)
  \/ Done

Spec == Init /\ [][Next]_vars

(***************************************************************************)
(* Several requests at once: Fastify starts the async handler for each     *)
(* request, and each invocation is suspended at its await until its own    *)
(* provider call settles.  text, json and the response are locals of the   *)
(* invocation                                                              *)
(***************************************************************************)

MaxRequests == 2

Reqs == 1..MaxRequests

ConcTexts == {<<>>, W_tabata, Join(<<W_EMOM, W_10min>>), W_hello}

ConcOutcomes ==
  {Rejected, SyntaxError, Null, Obj(<<>>), CanonTotal(<<B_Tabata>>, 4),
   Obj([type |-> Str(S_TABATA)])}

\* if (det) return reply.send(det); ... return reply.send(fb);
DetOrFb(d) == IF d = Thrown THEN Undef ELSE IF Truthy(d) THEN d ELSE fb

\* what the catch block sends
CatchResult(txt) == DetOrFb(deterministicParse(txt))

\* what the try block sends after JSON.parse, or the catch block for it
TryResult(n, j, txt) ==
  IF n # Thrown /\ Truthy(n) THEN n
  ELSE IF n # Thrown /\ WithRawDebug(j) # Thrown THEN WithRawDebug(j)
  ELSE CatchResult(txt)

\* the response of the handler to text txt when the provider call settles as outcome
ResponseTo(v, txt, outcome) ==
  IF outcome \in {Rejected, SyntaxError} THEN CatchResult(txt)
  ELSE TryResult(Normalize(v, outcome, txt), outcome, txt)

NoRequest == [pc |-> "idle", text |-> <<>>, json |-> Undef, response |-> Undef]

\* a text kept in one place for all invocations: the latest request's
SharedText(rs, i) ==
  rs[CHOOSE j \in DOMAIN rs :
       rs[j].pc = "awaiting" /\ \A k \in DOMAIN rs : rs[k].pc = "awaiting" => k <= j].text

\* const text = String(body.text || ""): a local of the invocation
LocalText(rs, i) == rs[i].text

ConcInit ==
  /\ pc = "idle"
  /\ variant \in Variants
  /\ reqs = [i \in Reqs |-> NoRequest]
  /\ text = <<>>
  /\ json = Undef
  /\ normalized = Undef
  /\ det = Undef
  /\ response = Undef
  /\ path = "none"
  /\ escaped = FALSE
  /\ calls = 0
  /\ rawSeq = Undef
  /\ fixedSeq = Undef

\* request i arrives and its invocation runs to the await
Arrive(i, t) ==
  /\ reqs[i].pc = "idle"
  /\ reqs' = [reqs EXCEPT ![i] = [pc |-> "awaiting", text |-> t, json |-> Undef,
                                  response |-> Undef]]
  /\ UNCHANGED <<pc, variant, text, json, normalized, det, path, response, escaped,
                 calls, rawSeq, fixedSeq>>

\* the provider call of request i settles and its invocation runs to reply.send
Resume(i, outcome) ==
  /\ reqs[i].pc = "awaiting"
  /\ reqs' = [reqs EXCEPT ![i] =
                [pc |-> "sent", text |-> reqs[i].text, json |-> outcome,
                 response |-> ResponseTo(variant, LocalText(reqs, i), outcome)]]
  /\ UNCHANGED <<pc, variant, text, json, normalized, det, path, response, escaped,
                 calls, rawSeq, fixedSeq>>

\* the reply of request i is on the wire
Finish(i) ==
  /\ reqs[i].pc = "sent"
  /\ reqs' = [reqs EXCEPT ![i] = NoRequest]
  /\ UNCHANGED <<pc, variant, text, json, normalized, det, path, response, escaped,
                 calls, rawSeq, fixedSeq>>

ConcNext ==
  \/ \E i \in Reqs, t \in ConcTexts : Arrive(i, t)
  \/ \E i \in Reqs, outcome \in ConcOutcomes : Resume(i, outcome)
  \/ \E i \in Reqs : Finish(i)

ConcSpec == ConcInit /\ [][ConcNext]_vars

(***************************************************************************)
(* normalizeAIToWorkoutJSON of README.md called on its own, with the flat  *)
(* timelines the provider is asked for                                     *)
(***************************************************************************)

Event(kind, label, seconds, round) ==
  Obj([kind |-> Str(kind), label |-> Str(label), seconds |-> Num(seconds),
       round |-> Num(round)])

Events ==
  {Event(S_work, S_Burpees, 20, 1), Event(S_work, S_Squats, 30, 2),
   Obj([kind |-> Str(S_work)]),
   Obj([kind |-> Str(S_rest), seconds |-> Num(10)]),
   Obj([kind |-> Str(S_round_rest), seconds |-> Num(60)]),
   Obj([kind |-> Str(S_round_rest), seconds |-> Num(0)])}

MaxEvents == 3

Timelines == {Arr(tl) : tl \in UNION {[1..n -> Events] : n \in 0..MaxEvents}}

TimelineObjects ==
  {Obj([timeline |-> tl, total_seconds |-> Num(120)]) : tl \in Timelines}
  \cup {Obj([timeline |-> tl]) : tl \in Timelines}

TimelineTexts == {<<>>, W_tabata}

TimelineInit ==
  /\ pc = "called"
  /\ variant = "README.md"
  /\ text \in TimelineTexts
  /\ json \in TimelineObjects
  /\ normalized = Undef
  /\ det = Undef
  /\ response = Undef
  /\ path = "none"
  /\ escaped = FALSE
  /\ calls = 0
  /\ reqs = <<>>
  /\ rawSeq = Undef
  /\ fixedSeq = Undef

\* one call of normalizeAIToWorkoutJSON(ai, text), to its return
NormalizeTimeline ==
  /\ pc = "called"
  /\ pc' = "returned"
  /\ normalized' = normalizeAIToWorkoutJSON_readme(json, text)
  /\ UNCHANGED <<variant, text, json, det, path, response, escaped, calls, reqs,
                 rawSeq, fixedSeq>>

TimelineNext == NormalizeTimeline

TimelineSpec == TimelineInit /\ [][TimelineNext]_vars

(***************************************************************************)
(* The extractors called on their own, on the request texts above and on   *)
(* phrased descriptions of EMOM and Tabata workouts                        *)
(***************************************************************************)

P_EMOMSp == <<"E", "M", "O", "M", " ">>
P_minOdd == <<" ", "m", "i", "n", ":", " ", "o", "d", "d", " ">>
P_commaEven == <<",", " ", "e", "v", "e", "n", " ">>
P_12burpees == <<"1", "2", " ", "b", "u", "r", "p", "e", "e", "s">>
P_squats == <<"s", "q", "u", "a", "t", "s">>
P_45sPlank == <<"4", "5", "s", " ", "p", "l", "a", "n", "k">>
P_lunges == <<"l", "u", "n", "g", "e", "s">>
P_Tabata == <<"T", "a", "b", "a", "t", "a">>
P_8rounds == <<" ", "8", " ", "r", "o", "u", "n", "d", "s", ",">>
P_6rounds == <<" ", "6", " ", "r", "o", "u", "n", "d", "s", ",">>
P_20sWork == <<" ", "2", "0", "s", " ", "w", "o", "r", "k", ",">>
P_30sWork == <<" ", "3", "0", "s", " ", "w", "o", "r", "k", ",">>
P_10sRest == <<" ", "1", "0", "s", " ", "r", "e", "s", "t">>
P_0sRest == <<" ", "0", "s", " ", "r", "e", "s", "t">>

\* "EMOM <n> min: odd <A>, even <B>"
EMOMPhrase(n, a, b) == P_EMOMSp \o numToString(n) \o P_minOdd \o a \o P_commaEven \o b

EMOMPhrases ==
  {EMOMPhrase(n, a, b) : n \in {5, 20}, a \in {P_12burpees, P_squats},
                         b \in {P_45sPlank, P_lunges}}

\* "Tabata", then any of "<n> rounds", "<n>s work", "<n>s rest", each after a comma
TabataPhrases ==
  {P_Tabata \o r \o w \o t : r \in {<<>>, P_8rounds, P_6rounds},
                             w \in {<<>>, P_20sWork, P_30sWork},
                             t \in {<<>>, P_10sRest, P_0sRest}}

P_Rounds == <<" ", "R", "o", "u", "n", "d", "s">>
P_45Work15Rest == <<":", "4", "5", " ", "W", "O", "R", "K", " ", "/", "/", " ", ":", "1", "5", " ", "R", "E", "S", "T">>
P_Run == <<"R", "u", "n">>
P_Squat == <<"S", "q", "u", "a", "t">>
P_Row == <<"R", "o", "w">>
P_RestA == <<"*", "R", "e", "s", "t", " ">>
P_RestB == <<" ", "a", "f", "t", "e", "r", " ", "e", "a", "c", "h", " ", "r", "o", "u", "n", "d">>
P_commaSp == <<",", " ">>
P_lf == <<"\n">>

\* the parts of a text, each followed by the separator but the last
RECURSIVE JoinWith(_, _)
JoinWith(parts, sep) ==
  IF Len(parts) = 1 THEN parts[1] ELSE parts[1] \o sep \o JoinWith(Tail(parts), sep)

\* "<n> Rounds", ":45 WORK // :15 REST", the exercises, "*Rest <m>:<ss> after each round"
PatternPhrase(n, exercises, m, ss, sep) ==
  JoinWith(<<numToString(n) \o P_Rounds, P_45Work15Rest>> \o exercises
           \o <<P_RestA \o numToString(m) \o S_colon \o ss \o P_RestB>>, sep)

PatternExercises == {<<P_Run>>, <<P_Run, P_Squat>>, <<P_Squat, P_Run, P_Row>>}

PatternRests == {<<2, <<"3", "0">>>>, <<1, <<"0", "0">>>>}

\* "4 Rounds: :45 WORK // :15 REST, Run, Squat, *Rest 2:30 after each round"
P_OneLine ==
  <<"4", " ", "R", "o", "u", "n", "d", "s", ":", " ", ":", "4", "5", " ", "W", "O", "R", "K", " ">> \o
  <<"/", "/", " ", ":", "1", "5", " ", "R", "E", "S", "T", ",", " ", "R", "u", "n", ",", " ">> \o
  <<"S", "q", "u", "a", "t", ",", " ", "*", "R", "e", "s", "t", " ", "2", ":", "3", "0", " ">> \o
  <<"a", "f", "t", "e", "r", " ", "e", "a", "c", "h", " ", "r", "o", "u", "n", "d">>

\* the description on lines of its own, and on one line with commas between
PatternPhrases ==
  {PatternPhrase(n, xs, r[1], r[2], sep) :
     n \in {3, 4}, xs \in PatternExercises, r \in PatternRests, sep \in {P_lf, P_commaSp}}
  \cup {P_OneLine}

ExtractorTexts == Texts \cup EMOMPhrases \cup TabataPhrases \cup PatternPhrases

Extractors ==
  {"parseEMOM", "parseTabata", "parseHiitSequence", "parseGenericIntervals",
   "deterministicParse", "parseWorkRestPattern", "deterministicParse_readme"}

\* the extractor of that name, applied
Extract(name, txt) ==
  CASE name = "parseEMOM" -> parseEMOM(txt)
    [] name = "parseTabata" -> parseTabata(txt)
    [] name = "parseHiitSequence" -> parseHiitSequence(txt)
    [] name = "parseGenericIntervals" -> parseGenericIntervals(txt)
    [] name = "deterministicParse" -> deterministicParse(txt)
    [] name = "parseWorkRestPattern" -> parseWorkRestPattern(txt)
    [] name = "deterministicParse_readme" -> deterministicParse_readme(txt)

ExtractorInit ==
  /\ pc = "called"
  /\ variant = "part_000"
  /\ text \in ExtractorTexts
  /\ json = Undef
  /\ normalized = Undef
  /\ det = Undef
  /\ response = Undef
  /\ path = "none"
  /\ escaped = FALSE
  /\ calls = 0
  /\ reqs = <<>>
  /\ rawSeq = Undef
  /\ fixedSeq = Undef

\* one call of an extractor on the text, to its return
CallExtractor(name) ==
  /\ pc = "called"
  /\ pc' = "returned"
  /\ path' = name
  /\ det' = Extract(name, text)
  /\ UNCHANGED <<variant, text, json, normalized, response, escaped, calls, reqs,
                 rawSeq, fixedSeq>>

ExtractorNext == \E name \in Extractors : CallExtractor(name)

ExtractorSpec == ExtractorInit /\ [][ExtractorNext]_vars

(***************************************************************************)
(* analyzeAndFixSequence called on its own: the raw sequences are lists of *)
(* named, timed items, some of them rest items                             *)
(***************************************************************************)

Timed(name, seconds) == Obj([name |-> Str(name), seconds |-> Num(seconds)])

RawItems ==
  {Timed(S_Burpees, 20), Timed(S_Squats, 20), Timed(S_Rest, 15), Timed(S_restLow, 30)}

MaxSeq == 3

RawSequences == {Arr(sq) : sq \in UNION {[1..n -> RawItems] : n \in 0..MaxSeq}}

RectifierTexts == {<<>>, W_rest, W_hello}

\* the two listings of the rectifier
RectifierVariants == {"part_000", "README.md"}

Rectify(v, sq, txt) ==
  IF v = "part_000" THEN analyzeAndFixSequence(sq, txt)
  ELSE analyzeAndFixSequence_readme(sq, txt)

\* the list the rectifier holds before its last step, the default rest
BeforeDefault(v, sq) ==
  IF v = "part_000"
  THEN FixedFrom(sq.a, 1, FirstRest(sq.a, 1) > 0,
                 IF FirstRest(sq.a, 1) > 0 THEN ItemDuration(sq.a[FirstRest(sq.a, 1)], 15)
                 ELSE Num(0))
  ELSE FixedFromReadme(sq.a, 1)

RectifierInit ==
  /\ pc = "called"
  /\ variant \in RectifierVariants
  /\ text \in RectifierTexts
  /\ rawSeq \in RawSequences
  /\ fixedSeq = Undef
  /\ json = Undef
  /\ normalized = Undef
  /\ det = Undef
  /\ response = Undef
  /\ path = "none"
  /\ escaped = FALSE
  /\ calls = 0
  /\ reqs = <<>>

\* one call of analyzeAndFixSequence(sequence, text), to its return
AnalyzeAndFix ==
  /\ pc = "called"
  /\ pc' = "returned"
  /\ fixedSeq' = Rectify(variant, rawSeq, text)
  /\ UNCHANGED <<variant, text, rawSeq, json, normalized, det, path, response, escaped,
                 calls, reqs>>

RectifierNext == AnalyzeAndFix

RectifierSpec == RectifierInit /\ [][RectifierNext]_vars

(***************************************************************************)
(* analyzeAndFixSequence called on items that state their duration in the  *)
(* fields duration, seconds and duration_seconds, or in none               *)
(***************************************************************************)

FieldItems ==
  {Obj([name |-> Str(S_Burpees), duration |-> Num(40), seconds |-> Num(20)]),
   Obj([name |-> Str(S_Squats), seconds |-> Num(30), duration_seconds |-> Num(25)]),
   Obj([name |-> Str(S_Squats), duration_seconds |-> Num(25)]),
   Obj([name |-> Str(S_Squats), seconds |-> Num(0), duration_seconds |-> Num(25)]),
   Obj([name |-> Str(S_Burpees)]),
   Obj([name |-> Str(S_Rest), duration |-> Num(10), seconds |-> Num(30)]),
   Obj([name |-> Str(S_Rest), duration_seconds |-> Num(45)]),
   Timed(S_restLow, 30)}

FieldSequences == {Arr(sq) : sq \in UNION {[1..n -> FieldItems] : n \in 0..MaxSeq}}

FieldInit ==
  /\ pc = "called"
  /\ variant \in RectifierVariants
  /\ text \in RectifierTexts
  /\ rawSeq \in FieldSequences
  /\ fixedSeq = Undef
  /\ json = Undef
  /\ normalized = Undef
  /\ det = Undef
  /\ response = Undef
  /\ path = "none"
  /\ escaped = FALSE
  /\ calls = 0
  /\ reqs = <<>>

FieldSpec == FieldInit /\ [][RectifierNext]_vars

(***************************************************************************)
(* The timeline variant of POST /generate (server.js, first handler): the  *)
(* provider is asked for a flat timeline, each item is validated, and a    *)
(* failure leads to createFallbackTimeline and then to a fixed timeline    *)
(***************************************************************************)

S_Round == <<"R", "o", "u", "n", "d">>
S_SpWorkout == <<" ", "W", "o", "r", "k", "o", "u", "t">>
S_GeneratedWorkout == <<"G", "e", "n", "e", "r", "a", "t", "e", "d">> \o S_SpWorkout
S_FallbackWorkout == <<"F", "a", "l", "l", "b", "a", "c", "k">> \o S_SpWorkout
S_AIGeneratedTimeline ==
  <<"A", "I", " ", "g", "e", "n", "e", "r", "a", "t", "e", "d", " ", "t", "i", "m", "e", "l", "i", "n", "e">>
S_DeterministicFallback ==
  <<"d", "e", "t", "e", "r", "m", "i", "n", "i", "s", "t", "i", "c", " ", "f", "a", "l", "l", "b", "a", "c", "k">>
S_FallbackGenerated ==
  <<"f", "a", "l", "l", "b", "a", "c", "k", " ", "g", "e", "n", "e", "r", "a", "t", "e", "d">>

\* a number with one decimal, in tenths: what JSON.parse gives for "0.4"
Tenths(t) == [k |-> "number", tenths |-> t]

\* what JSON.parse gives for a number beyond the double range, as "1e999"
Infinity == [k |-> "infinity"]

\* typeof v === 'number'
isNumber(v) == v.k \in {"number", "NaN", "infinity"}

\* Math.round: halves go up; whole numbers, NaN and Infinity are kept
MathRound(v) ==
  IF v.k = "number" /\ "tenths" \in DOMAIN v THEN Num((v.tenths + 5) \div 10) ELSE v

\* Math.max(1, v) of a rounded number
MaxOne(v) == IF v.k = "number" THEN Num(IF v.n > 1 THEN v.n ELSE 1) ELSE v

\* the callback of json.timeline.map: one item validated; reading a field of
\* null is a TypeError
ValidItem(item) ==
  IF Get(item, "kind") = Thrown THEN Thrown
  ELSE IF ~Truthy(Get(item, "kind")) \/ ~Truthy(Get(item, "label"))
          \/ ~isNumber(Get(item, "seconds"))
  THEN Thrown
  ELSE ObjectOf([kind |-> Get(item, "kind"),
                 label |-> Get(item, "label"),
                 seconds |-> MaxOne(MathRound(Get(item, "seconds"))),
                 round |-> Or(Get(item, "round"), Undef),
                 index |-> Or(Get(item, "index"), Undef)])

\* a validation that drops the invalid items and keeps the others
validTimelineSkipping(timeline) ==
  Arr(SelectSeq([i \in DOMAIN timeline |-> ValidItem(timeline[i])], LAMBDA v : v # Thrown))

\* json.timeline.map(...): the first invalid item throws
validTimeline(timeline) == ArrayOf([i \in DOMAIN timeline |-> ValidItem(timeline[i])])

\* timeline.reduce((sum, item) => sum + item.seconds, 0), from item i on
RECURSIVE TotalFrom(_, _)
TotalFrom(timeline, i) ==
  IF i > Len(timeline) THEN Num(0)
  ELSE LET rest == TotalFrom(timeline, i + 1)
           seconds == Get(timeline[i], "seconds")
       IN IF seconds.k = "number" /\ rest.k = "number" THEN Num(seconds.n + rest.n)
          ELSE IF seconds.k = "NaN" \/ rest.k = "NaN" THEN NaN
          ELSE Infinity

totalSeconds(timeline) == TotalFrom(timeline, 1)

\* the result object of the try block, for a validated timeline
AIResult(j, valid) ==
  Obj([title |-> Or(Get(j, "title"), Str(S_GeneratedWorkout)),
       timeline |-> valid,
       total_seconds |-> totalSeconds(valid.a),
       debug |-> Obj([used_ai |-> Bool(TRUE), notes |-> Str(S_AIGeneratedTimeline)])])

\* the try block after JSON.parse: the result, or Thrown for an exception
AITimeline(j) ==
  IF Get(j, "timeline") = Thrown THEN Thrown
  ELSE IF ~Truthy(Get(j, "timeline")) \/ ~isArray(Get(j, "timeline"))
          \/ Len(Get(j, "timeline").a) = 0
  THEN Thrown
  ELSE IF validTimeline(Get(j, "timeline").a) = Thrown THEN Thrown
  ELSE AIResult(j, validTimeline(Get(j, "timeline").a))

\* /(\d+)\s*rounds?/i
RE_fbRounds == <<Cap, Plus("digit"), End, Star("space"), Lit(S_round), Opt(S_s)>>
\* /(\d+)\s*s(?:ec)?\s*work/i
RE_fbWork == <<Cap, Plus("digit"), End, Star("space"), Lit(S_s), Opt(S_ec),
               Star("space"), Lit(S_work)>>
\* /(\d+)\s*s(?:ec)?\s*rest/i
RE_fbRest == <<Cap, Plus("digit"), End, Star("space"), Lit(S_s), Opt(S_ec),
               Star("space"), Lit(S_rest)>>

\* roundsMatch ? parseInt(roundsMatch[1]) : 1, and restMatch ? ... : 15
CapturedOr(re, txt, dflt) ==
  IF test(re, txt) THEN parseInt(Capture(re, txt).s) ELSE dflt

WorkItem(workSeconds, round) ==
  Obj([kind |-> Str(S_work), label |-> Str(S_Work), seconds |-> Num(workSeconds),
       round |-> Num(round), index |-> Num(1)])

RestItem(restSeconds, round) ==
  Obj([kind |-> Str(S_rest), label |-> Str(S_Rest), seconds |-> Num(restSeconds),
       round |-> Num(round), index |-> Num(2)])

\* the for loop from round on: a work item, and a rest item before the next round
RECURSIVE FallbackItems(_, _, _, _)
FallbackItems(round, rounds, workSeconds, restSeconds) ==
  IF round > rounds THEN <<>>
  ELSE <<WorkItem(workSeconds, round)>>
       \o (IF round < rounds THEN <<RestItem(restSeconds, round)>> ELSE <<>>)
       \o FallbackItems(round + 1, rounds, workSeconds, restSeconds)

\* the object createFallbackTimeline returns when the text has a work match
FallbackFrom(rounds, timeline) ==
  Obj([title |-> Str(numToString(rounds) \o <<" ">> \o S_Round
                       \o (IF rounds > 1 THEN S_s ELSE <<>>) \o S_SpWorkout),
       timeline |-> Arr(timeline),
       total_seconds |-> totalSeconds(timeline),
       debug |-> Obj([used_ai |-> Bool(FALSE), notes |-> Str(S_DeterministicFallback)])])

createFallbackTimeline(txt) ==
  IF test(RE_fbWork, txt)
  THEN FallbackFrom(CapturedOr(RE_fbRounds, txt, 1),
                    FallbackItems(1, CapturedOr(RE_fbRounds, txt, 1),
                                  parseInt(Capture(RE_fbWork, txt).s),
                                  CapturedOr(RE_fbRest, txt, 15)))
  ELSE Null

\* the fixed timeline of the catch block
fbTimeline ==
  Obj([title |-> Str(S_FallbackWorkout),
       timeline |-> Arr(<<WorkItem(30, 1), RestItem(15, 1)>>),
       total_seconds |-> Num(45),
       debug |-> Obj([used_ai |-> Bool(FALSE), notes |-> Str(S_FallbackGenerated)])])

\* the texts of the requests: a round count, a work time and a rest time, each
\* stated or not
G_0rounds == <<"0", " ", "r", "o", "u", "n", "d", "s">>
G_1round == <<"1", " ", "r", "o", "u", "n", "d">>
G_3rounds == <<"3", " ", "R", "o", "u", "n", "d", "s">>
G_30sWork == <<"3", "0", "s", " ", "w", "o", "r", "k">>
G_40secWork == <<"4", "0", " ", "s", "e", "c", " ", "W", "O", "R", "K">>
G_10sRest == <<"1", "0", "s", " ", "r", "e", "s", "t">>

GenText(parts) == IF parts = <<>> THEN <<>> ELSE JoinWith(parts, P_commaSp)

GenTexts ==
  {GenText(SelectSeq(<<r, w, t>>, LAMBDA part : part # <<>>)) :
     r \in {<<>>, G_0rounds, G_1round, G_3rounds},
     w \in {<<>>, G_30sWork, G_40secWork},
     t \in {<<>>, G_10sRest}}

\* the items a provider may put on its timeline: well formed, with seconds
\* that need rounding or raising, and the three ways of being invalid
GenItems ==
  {Event(S_work, S_Burpees, 20, 1),
   Obj([kind |-> Str(S_rest), label |-> Str(S_Rest), seconds |-> Tenths(4)]),
   Obj([kind |-> Str(S_work), label |-> Str(S_Squats), seconds |-> Tenths(25), index |-> Num(0)]),
   Obj([kind |-> Str(S_rest), label |-> Str(S_Rest), seconds |-> Num(0 - 5)]),
   Obj([kind |-> Str(S_work), label |-> Str(S_Squats), seconds |-> Infinity]),
   Obj([label |-> Str(S_Burpees), seconds |-> Num(20)]),
   Obj([kind |-> Str(S_work), label |-> Str(<<>>), seconds |-> Num(20)]),
   Obj([kind |-> Str(S_work), label |-> Str(S_Burpees), seconds |-> Str(<<"2", "0">>)]),
   Obj([kind |-> Str(S_work), label |-> Str(S_Burpees)]),
   Null}

\* the longest provider timeline, in items
MaxItems == 2

GenTimelines == {Arr(tl) : tl \in UNION {[1..n -> GenItems] : n \in 0..MaxItems}}

\* everything JSON.parse may return in this handler
GenObjects ==
  {Obj([timeline |-> tl]) : tl \in GenTimelines}
  \cup {Obj([title |-> Str(S_Demo), timeline |-> Arr(<<Event(S_work, S_Burpees, 20, 1)>>)]),
        Obj([timeline |-> Str(S_x1)]), Obj(<<>>), Null, Num(5)}

\* catch (aiError) { ... }: createFallbackTimeline, then the fixed timeline
GenCatch ==
  /\ det' = createFallbackTimeline(text)
  /\ response' = IF Truthy(det') THEN det' ELSE fbTimeline
  /\ path' = IF Truthy(det') THEN "det" ELSE "fallback"

\* the handler up to its await
GenRequest(t) ==
  /\ pc = "idle"
  /\ pc' = "awaiting"
  /\ text' = t
  /\ calls' = calls + 1
  /\ UNCHANGED <<variant, json, normalized, det, path, response, escaped, reqs, rawSeq,
                 fixedSeq>>

\* the provider call throws
GenProviderRejects ==
  /\ pc = "awaiting"
  /\ pc' = "sent"
  /\ json' = Rejected
  /\ GenCatch
  /\ UNCHANGED <<variant, text, normalized, escaped, calls, reqs, rawSeq, fixedSeq>>

\* the provider answers with content that is no JSON
GenProviderRepliesText ==
  /\ pc = "awaiting"
  /\ pc' = "sent"
  /\ json' = SyntaxError
  /\ GenCatch
  /\ UNCHANGED <<variant, text, normalized, escaped, calls, reqs, rawSeq, fixedSeq>>

\* the provider answers with content that parses to j: validation, then the
\* result or the catch block
GenProviderRepliesJSON(j) ==
  /\ pc = "awaiting"
  /\ pc' = "sent"
  /\ json' = j
  /\ normalized' = AITimeline(j)
  /\ IF normalized' # Thrown
     THEN /\ response' = normalized'
          /\ path' = "ai"
          /\ UNCHANGED det
     ELSE GenCatch
  /\ UNCHANGED <<variant, text, escaped, calls, reqs, rawSeq, fixedSeq>>

\* the reply is on the wire and the handler has returned
GenDone ==
  /\ pc = "sent"
  /\ pc' = "idle"
  /\ text' = <<>>
  /\ json' = Undef
  /\ normalized' = Undef
  /\ det' = Undef
  /\ response' = Undef
  /\ path' = "none"
  /\ calls' = 0
  /\ UNCHANGED <<variant, escaped, reqs, rawSeq, fixedSeq>>

GenInit ==
  /\ pc = "idle"
  /\ text = <<>>
  /\ variant = "server.js timeline"
  /\ json = Undef
  /\ normalized = Undef
  /\ det = Undef
  /\ response = Undef
  /\ path = "none"
  /\ escaped = FALSE
  /\ calls = 0
  /\ reqs = <<>>
  /\ rawSeq = Undef
  /\ fixedSeq = Undef

GenNext ==
  \/ \E t \in GenTexts : GenRequest(t)
  \/ GenProviderRejects
  \/ GenProviderRepliesText
  \/ \E j \in GenObjects : GenProviderRepliesJSON(j)
  \/ GenDone

GenSpec == GenInit /\ [][GenNext]_vars

(***************************************************************************)
(* What the specification calls a canonical schedule                       *)
(***************************************************************************)

Archetypes == {S_EMOM, S_TABATA, S_CIRCUIT, S_INTERVAL}

Has(v, name) == v.k = "object" /\ name \in DOMAIN v.f

HasAll(v, names) == \A name \in names : Has(v, name)

\* a block of a known type that carries the fields its type requires
IsBlock(b) ==
  /\ Has(b, "type")
  /\ \/ Is(b.f.type, S_EMOM) /\ HasAll(b, {"minutes", "instructions"})
                             /\ isArray(b.f.instructions)
     \/ Is(b.f.type, S_TABATA)
          /\ HasAll(b, {"rounds", "work_seconds", "rest_seconds", "exercise"})
     \/ Is(b.f.type, S_CIRCUIT)
          /\ HasAll(b, {"rounds", "exercises", "rest_between_rounds_seconds"})
          /\ isArray(b.f.exercises)
     \/ Is(b.f.type, S_INTERVAL)
          /\ HasAll(b, {"sets", "work_seconds", "rest_seconds"})
          /\ (Has(b, "sequence") => isArray(b.f.sequence))

\* a string title and a non-empty list of blocks
IsCanonicalSchedule(r) ==
  /\ HasAll(r, {"title", "blocks"})
  /\ isString(r.f.title)
  /\ isArray(r.f.blocks)
  /\ Len(r.f.blocks.a) > 0
  /\ \A i \in DOMAIN r.f.blocks.a : IsBlock(r.f.blocks.a[i])

\* a string title, non-empty blocks, a positive total, cues and debug
IsValidSchedule(r) ==
  /\ HasAll(r, {"title", "blocks", "total_minutes", "cues", "debug"})
  /\ isString(r.f.title)
  /\ isArray(r.f.blocks)
  /\ Len(r.f.blocks.a) > 0
  /\ r.f.total_minutes.k = "number"
  /\ r.f.total_minutes.n > 0

\* the generative path failed: the call, the parse or the normalization
GenerativeFailed == json \in {Rejected, SyntaxError} \/ normalized \in {Null, Thrown}

\* the type of a schedule's first block
FirstBlockType(r) == Get(First(Get(r, "blocks")), "type")

\* a schedule of the EMOM extractor: block type EMOM, inferred_mode "EMOM"
IsEMOMSchedule(r) ==
  /\ Is(FirstBlockType(r), S_EMOM)
  /\ Is(Get(Get(r, "debug"), "inferred_mode"), S_EMOM)

\* the text has the EMOM cue and the tabata cue
BothCues(txt) == hasEMOMCue(txt) /\ test(RE_tabata, txt)

(***************************************************************************)
(* Claims                                                                  *)
(***************************************************************************)

\* C1: when the provider call fails, the handler sends a valid canonical
\* schedule (string title, non-empty blocks, positive total_minutes, cues,
\* debug) and no exception leaves it, whatever the text.
C1_FailedCallSendsValidSchedule ==
  (pc = "sent" /\ json = Rejected) => (~escaped /\ IsValidSchedule(response))

\* C2: when the provider's JSON parses and the normalizer returns none, the
\* handler goes to the extractor chain and the safe default, as on a throw,
\* and never sends the provider's own object.
C2_NoneFallsBackToExtractors ==
  (pc = "sent" /\ normalized = Null) => path \in {"det", "fallback"}

\* C3: for every provider outcome no exception escapes the handler, and each
\* failure of the generative path leads to the extractor chain and then to
\* the safe default.
C3_EveryFailureFallsBack ==
  pc = "sent" => (~escaped /\ (GenerativeFailed => path \in {"det", "fallback"}))

\* C4: every response is a canonical schedule with a non-empty blocks list
\* whose every block has a known type and that type's required fields.
C4_EveryResponseIsCanonical ==
  pc = "sent" => IsCanonicalSchedule(response)

\* C5: every canonical schedule that is sent has a total_minutes equal to the
\* value recomputed from its own blocks.
C5_TotalIsRecomputed ==
  (pc = "sent" /\ IsCanonicalSchedule(response))
    => Get(response, "total_minutes") = RecomputedMinutes(Get(response, "blocks"))

\* C6: a well-formed canonical schedule comes out of the normalizer with its
\* blocks unchanged and with the recomputed total_minutes, whatever total the
\* input carried and also when a field is 0.
C6_CanonicalInputIsKept ==
  (pc = "sent" /\ IsCanonicalSchedule(json))
    => /\ Get(normalized, "blocks") = Get(json, "blocks")
       /\ Get(normalized, "total_minutes") = RecomputedMinutes(Get(json, "blocks"))

\* C7: the safe default is sent only when the generative path failed and
\* every extractor declined, and then it is always what is sent.
C7_SafeDefaultExactlyOnTotalFailure ==
  pc = "sent" =>
    /\ path = "fallback" =>
         (response = fb /\ GenerativeFailed /\ ~Truthy(deterministicParse(text)))
    /\ (GenerativeFailed /\ ~Truthy(deterministicParse(text))) =>
         (path = "fallback" /\ response = fb)

\* C8: the normalizer never throws to its caller: it returns a schedule or
\* none for every loose object and every text.
C8_NormalizerNeverThrows ==
  pc = "sent" => normalized # Thrown

\* C9: the text's cue rebuilds a schedule only when the loose object matched
\* no shape branch: an object of one raw archetype is normalized to a
\* schedule of that archetype, whatever the text says.
C9_ShapeBeforeTextCue ==
  (/\ pc = "sent"
   /\ \E t \in Archetypes : Is(Get(json, "type"), t)
   /\ ~isArray(Get(json, "blocks"))
   /\ path = "normalized")
    => FirstBlockType(normalized) = Get(json, "type")

\* C10, as stated: for every text with both the EMOM cue and the tabata cue
\* the extractor chain returns the EMOM extractor's schedule.
C10_EMOMWinsOverTabata ==
  (pc = "sent" /\ json = Rejected /\ BothCues(text)) => IsEMOMSchedule(det)

\* C10, amended: for every text with both cues whose first minute count is
\* not zero, the extractor chain returns the EMOM extractor's schedule.
C10_EMOMWinsWhenMinutesGiven ==
  (/\ pc = "sent"
   /\ json = Rejected
   /\ BothCues(text)
   /\ Truthy(num(Capture(RE_minutes, text))))
    => (IsEMOMSchedule(det) /\ det = parseEMOM(text))

\* the chain has answered a text with both cues and a minute count
C10_Witness ==
  /\ pc = "sent"
  /\ json = Rejected
  /\ BothCues(text)
  /\ Truthy(num(Capture(RE_minutes, text)))
  /\ path = "det"
  /\ response = det

\* the items of a raw sequence that are no rest items, in order
Exercises(sq) == SelectSeq(sq, LAMBDA item : ~IsRestItem(item).b)

\* the positions of the exercises of a raw sequence, in order
RECURSIVE ExercisePositions(_, _)
ExercisePositions(sq, i) ==
  IF i > Len(sq) THEN <<>>
  ELSE IF IsRestItem(sq[i]).b THEN ExercisePositions(sq, i + 1)
  ELSE <<i>> \o ExercisePositions(sq, i + 1)

\* C11: the rectified sequence holds exactly the items of the raw sequence
\* that are no rest items, in their order; none of its items is a rest item;
\* and every exercise that a rest item follows immediately carries that rest
\* item's duration as rest_after_seconds.
C11_RestItemsAbsorbed ==
  pc = "returned" =>
    /\ isArray(fixedSeq)
    /\ Len(fixedSeq.a) = Len(Exercises(rawSeq.a))
    /\ \A k \in DOMAIN fixedSeq.a :
         /\ Get(fixedSeq.a[k], "name") = Get(Exercises(rawSeq.a)[k], "name")
         /\ Get(fixedSeq.a[k], "seconds") = Get(Exercises(rawSeq.a)[k], "seconds")
         /\ ~IsRestItem(fixedSeq.a[k]).b
         /\ LET i == ExercisePositions(rawSeq.a, 1)[k]
            IN i < Len(rawSeq.a) /\ IsRestItem(rawSeq.a[i + 1]).b
                 => Get(fixedSeq.a[k], "rest_after_seconds") = Get(rawSeq.a[i + 1], "seconds")

\* an exercise of a rectified list that carries rest_after_seconds
CarriesRest(item) == Has(item, "rest_after_seconds")

\* C12: when the list the rectifier is about to return is not empty, none of
\* its exercises carries rest_after_seconds and the text contains "rest", the
\* returned list has rest_after_seconds 15 on its final exercise and on no other,
\* also when the raw sequence holds rest items that attached to no exercise.
C12_DefaultRestOnFinalExercise ==
  pc = "returned" /\ test(RE_rest, text)
  /\ Len(BeforeDefault(variant, rawSeq)) > 0
  /\ (\A k \in DOMAIN BeforeDefault(variant, rawSeq) :
        ~CarriesRest(BeforeDefault(variant, rawSeq)[k]))
  => /\ isArray(fixedSeq)
     /\ \A k \in DOMAIN fixedSeq.a :
          IF k = Len(fixedSeq.a)
          THEN Get(fixedSeq.a[k], "rest_after_seconds") = Num(15)
          ELSE ~CarriesRest(fixedSeq.a[k])

\* C13: while one request is handled the provider is called at most once, on
\* every path; once the reply is sent exactly one call has been made, also
\* after a provider failure, a JSON parse failure or a failed normalization.
C13_AtMostOneProviderCall ==
  /\ calls <= 1
  /\ pc \in {"awaiting", "sent"} => calls = 1

\* a failed provider call answered by the extractor chain, after one call
C13_Witness ==
  pc = "sent" /\ json = Rejected /\ path = "det" /\ calls = 1

ResponseToIsTheHandler ==
  pc = "sent" => response = ResponseTo(variant, text, json)

\* the positions of the events of one kind in a timeline
KindPositions(tl, kind) == {i \in DOMAIN tl : Is(Get(tl[i], "kind"), kind)}

\* the first event of one kind; the kind occurs
FirstOfKind(tl, kind) ==
  tl[CHOOSE i \in KindPositions(tl, kind) : \A j \in KindPositions(tl, kind) : i <= j]

\* the round of a work event, 1 when it names none
RoundOf(e) == IF Has(e, "round") THEN e.f.round.n ELSE 1

\* the largest round number among the work events; there is one
LargestRound(tl) ==
  CHOOSE n \in {RoundOf(tl[i]) : i \in KindPositions(tl, S_work)} :
    \A i \in KindPositions(tl, S_work) : RoundOf(tl[i]) <= n

\* the work events of round 1, in order
FirstRoundWork(tl) ==
  SelectSeq(tl, LAMBDA e : Is(Get(e, "kind"), S_work) /\ Get(e, "round") = Num(1))

\* a schedule of the flat-timeline branch with exactly one block
FromTimeline(r) ==
  /\ Has(r, "blocks") /\ isArray(r.f.blocks) /\ Len(r.f.blocks.a) = 1
  /\ Is(Get(Get(r, "debug"), "notes"), S_ConvertedFromTimeline)

\* the block is the circuit of the first round's work events
IsTimelineCircuit(b, tl) ==
  /\ Is(Get(b, "type"), S_CIRCUIT)
  /\ Get(b, "rounds") = Num(LargestRound(tl))
  /\ Get(b, "rest_between_rounds_seconds")
       = Get(FirstOfKind(tl, S_round_rest), "seconds")
  /\ isArray(Get(b, "exercises"))
  /\ Len(b.f.exercises.a) = Len(FirstRoundWork(tl))
  /\ \A k \in DOMAIN b.f.exercises.a :
       /\ Get(b.f.exercises.a[k], "name") = Get(FirstRoundWork(tl)[k], "label")
       /\ Get(b.f.exercises.a[k], "seconds") = Get(FirstRoundWork(tl)[k], "seconds")

EMOMBlock(n, a, b) ==
  Obj([type |-> Str(S_EMOM), minutes |-> Num(n),
       instructions |-> Arr(<<Obj([minute_mod |-> Str(S_odd), name |-> Str(a)]),
                              Obj([minute_mod |-> Str(S_even), name |-> Str(b)])>>)])

\* C16: with the provider failing, the text "EMOM <n> min: odd <A>, even <B>"
\* yields the EMOM extractor's schedule: one block of type EMOM with minutes n
\* and the instructions odd A and even B, and total_minutes n; for
\* "EMOM 20 min: odd 12 burpees, even 45s plank" the odd name is "12 burpees".
C16_EMOMOddEven ==
  \A n \in {5, 20}, a \in {P_12burpees, P_squats}, b \in {P_45sPlank, P_lunges} :
    pc = "returned" /\ path = "deterministicParse" /\ text = EMOMPhrase(n, a, b)
    => /\ Get(det, "total_minutes") = Num(n)
       /\ Get(det, "blocks") = Arr(<<EMOMBlock(n, a, b)>>)

\* the number a phrase part states, or the default when the part is absent
Stated(part, dflt) ==
  IF part = <<>> THEN dflt
  ELSE parseInt(SelectSeq(part, LAMBDA c : c \in {"0", "1", "2", "3", "4", "5", "6", "7", "8", "9"}))

\* C17: for a text with the word "tabata", parseTabata returns one TABATA block
\* whose rounds, work_seconds and rest_seconds are the values the text states
\* as "<n> rounds", "<n>s work", "<n>s rest", with 8, 20 and 10 only for a value
\* that is not stated, and total_minutes = ceil(rounds*(work+rest)/60).
C17_TabataStatedValues ==
  \A r \in {<<>>, P_8rounds, P_6rounds}, w \in {<<>>, P_20sWork, P_30sWork},
     t \in {<<>>, P_10sRest, P_0sRest} :
    pc = "returned" /\ path = "parseTabata" /\ text = P_Tabata \o r \o w \o t
    => /\ Is(FirstBlockType(det), S_TABATA)
       /\ Get(First(Get(det, "blocks")), "rounds") = Num(Stated(r, 8))
       /\ Get(First(Get(det, "blocks")), "work_seconds") = Num(Stated(w, 20))
       /\ Get(First(Get(det, "blocks")), "rest_seconds") = Num(Stated(t, 10))
       /\ Get(det, "total_minutes")
            = Num(-((-(Stated(r, 8) * (Stated(w, 20) + Stated(t, 10)))) \div 60))

\* the sequenced INTERVAL block of the work/rest pattern: every exercise 45
\* seconds, each but the last with 15 seconds after it
IsPatternBlock(b, n, exercises, rest) ==
  /\ Is(Get(b, "type"), S_INTERVAL)
  /\ Get(b, "sets") = Num(n)
  /\ Get(b, "rest_seconds") = Num(rest)
  /\ isArray(Get(b, "sequence"))
  /\ Len(b.f.sequence.a) = Len(exercises)
  /\ \A k \in DOMAIN b.f.sequence.a :
       /\ Get(b.f.sequence.a[k], "name") = Str(exercises[k])
       /\ Get(b.f.sequence.a[k], "seconds") = Num(45)
       /\ Get(b.f.sequence.a[k], "rest_after_seconds")
            = IF k < Len(exercises) THEN Num(15) ELSE Undef

\* C18 as stated: for "4 Rounds: :45 WORK // :15 REST, Run, Squat, *Rest 2:30
\* after each round", one line with commas between the parts, the chain that
\* holds parseWorkRestPattern returns the sequenced INTERVAL with sets 4,
\* rest_seconds 150 and the two items Run and Squat of 45 seconds, the first
\* with rest_after_seconds 15 and the last with none.
C18_WorkRestPatternOneLine ==
  pc = "returned" /\ path = "deterministicParse_readme"
  /\ text = P_OneLine
  => IsPatternBlock(First(Get(det, "blocks")), 4, <<P_Run, P_Squat>>, 150)

\* C18 amended: for the same description with each part on a line of its own
\* ("4 Rounds", ":45 WORK // :15 REST", "Run", "Squat", "*Rest 2:30 after each
\* round"), the chain that holds parseWorkRestPattern returns that extractor's
\* sequenced INTERVAL: sets 4, rest_seconds 150, the items Run and Squat of 45
\* seconds, the first with rest_after_seconds 15 and the last with none; and so
\* for the other round counts, exercise lines and rests.  On one line with
\* commas every extractor declines.
C18_WorkRestPatternOnLines ==
  \A n \in {3, 4}, xs \in PatternExercises, r \in PatternRests :
    /\ pc = "returned" /\ path = "deterministicParse_readme"
       /\ text = PatternPhrase(n, xs, r[1], r[2], P_lf)
       => IsPatternBlock(First(Get(det, "blocks")), n, xs, r[1] * 60 + parseInt(r[2]))
    /\ pc = "returned" /\ path = "deterministicParse_readme"
       /\ text \in {PatternPhrase(n, xs, r[1], r[2], P_commaSp), P_OneLine}
       => det = Null

\* the description of the claim on five lines, answered by the pattern extractor
C18_Witness ==
  /\ pc = "returned" /\ path = "deterministicParse_readme"
  /\ text = PatternPhrase(4, <<P_Run, P_Squat>>, 2, <<"3", "0">>, P_lf)
  /\ Get(Get(det, "debug"), "notes") = Str(S_ParsedFromPattern)
  /\ Get(First(Get(det, "blocks")), "rest_seconds") = Num(150)

\* C19: every successful response of POST /generate is the envelope
\* { ok: true, data: <schedule> }, on the AI path, the extractor path and the
\* safe-default path.
C19_ResponseIsEnvelope ==
  pc = "sent" /\ ~escaped =>
    /\ HasAll(response, {"ok", "data"})
    /\ response.f.ok = Bool(TRUE)

\* a total_minutes that is a positive integer
PositiveTotal(r) ==
  /\ Has(r, "total_minutes")
  /\ r.f.total_minutes.k = "number"
  /\ r.f.total_minutes.n >= 1

\* C20: in every schedule an extractor or a branch of the normalizer returns,
\* total_minutes is a positive integer: at least 1, never 0, never undefined,
\* never not-a-number.
C20_TotalIsPositive ==
  pc = "returned" =>
    /\ det.k = "object" => PositiveTotal(det)
    /\ normalized.k = "object" => PositiveTotal(normalized)

\* the names inferred_mode may carry for a schedule of the four archetypes
ModeNames == Archetypes \cup {S_INTERVALseq}

\* debug.used_ai of a response
UsedAi(r) == Get(Get(r, "debug"), "used_ai")

\* C21: debug.used_ai tells which path produced the response: a schedule of the
\* extractor chain or the safe default has used_ai = false and an
\* inferred_mode naming its archetype (FALLBACK for the safe default), and a
\* response that a branch of the normalizer produced from the provider's
\* output has used_ai = true.
C21_UsedAiTellsThePath ==
  pc = "sent" /\ ~escaped =>
    /\ path = "det" =>
         /\ UsedAi(response) = Bool(FALSE)
         /\ \E m \in ModeNames : Is(Get(Get(response, "debug"), "inferred_mode"), m)
    /\ path = "fallback" =>
         /\ UsedAi(response) = Bool(FALSE)
         /\ Is(Get(Get(response, "debug"), "inferred_mode"), S_FALLBACK)
    /\ path = "normalized" => UsedAi(response) = Bool(TRUE)

\* the positions of the rest items of a raw sequence
RestPositions(sq) == {i \in DOMAIN sq : IsRestItem(sq[i]).b}

\* the duration of the first rest item of a raw sequence that has one:
\* duration, then seconds, then duration_seconds, then 15
FirstRestDuration(sq) ==
  ItemDuration(sq[CHOOSE i \in RestPositions(sq) : \A j \in RestPositions(sq) : i <= j], 15)

StatedDuration(item) ==
  IF Has(item, "duration") THEN item.f.duration
  ELSE IF Has(item, "seconds") THEN item.f.seconds
  ELSE IF Has(item, "duration_seconds") THEN item.f.duration_seconds
  ELSE Undef

\* C23: in the rectifier of README.md lines 840-883, each rest item's own
\* duration, looked up as for exercises (duration, then seconds, then
\* duration_seconds), is the rest_after_seconds of the exercise right before it,
\* and an exercise that no rest item follows carries no rest_after_seconds
\* unless the 15s last-resort rule applies.
C23_OwnRestOnPrecedingExercise ==
  pc = "returned" /\ variant = "README.md" =>
    /\ isArray(fixedSeq)
    /\ Len(fixedSeq.a) = Len(Exercises(rawSeq.a))
    /\ \A k \in DOMAIN fixedSeq.a :
         LET i == ExercisePositions(rawSeq.a, 1)[k]
         IN IF (i + 1) \in RestPositions(rawSeq.a)
            THEN Get(fixedSeq.a[k], "rest_after_seconds") = StatedDuration(rawSeq.a[i + 1])
            ELSE \/ ~CarriesRest(fixedSeq.a[k])
                 \/ /\ k = Len(fixedSeq.a)
                    /\ test(RE_rest, text)
                    /\ Get(fixedSeq.a[k], "rest_after_seconds") = Num(15)

\* C24: for every item that is no rest item, analyzeAndFixSequence sets seconds
\* to the item's duration field when present, else its seconds field when
\* present, else its duration_seconds field when present, else 20; a present
\* field of value 0 counts as present.
C24_DurationLookup ==
  pc = "returned" =>
    /\ isArray(fixedSeq)
    /\ Len(fixedSeq.a) = Len(Exercises(rawSeq.a))
    /\ \A k \in DOMAIN fixedSeq.a :
         Get(fixedSeq.a[k], "seconds") =
           IF StatedDuration(Exercises(rawSeq.a)[k]) = Undef THEN Num(20)
           ELSE StatedDuration(Exercises(rawSeq.a)[k])

\* the sum of f[i] over the positions of a list
RECURSIVE SumOfList(_)
SumOfList(l) == IF l = <<>> THEN 0 ELSE Head(l) + SumOfList(Tail(l))

\* whole minutes that hold a number of seconds
MinutesFor(seconds) == (seconds + 59) \div 60

\* seconds of a step and the rest after it, 0 when it states none
StepTime(step) ==
  step.f.seconds.n + (IF Has(step, "rest_after_seconds") THEN step.f.rest_after_seconds.n ELSE 0)

\* the duration of a well-formed block in minutes, by the table of archetypes
ArchetypeMinutes(b) ==
  CASE Is(b.f.type, S_EMOM) -> b.f.minutes.n
    [] Is(b.f.type, S_TABATA) ->
         MinutesFor(b.f.rounds.n * (b.f.work_seconds.n + b.f.rest_seconds.n))
    [] Is(b.f.type, S_CIRCUIT) ->
         MinutesFor(b.f.rounds.n
                      * SumOfList([i \in DOMAIN b.f.exercises.a |-> b.f.exercises.a[i].f.seconds.n])
                    + (b.f.rounds.n - 1) * b.f.rest_between_rounds_seconds.n)
    [] Is(b.f.type, S_INTERVAL) /\ Has(b, "sequence") ->
         MinutesFor(b.f.sets.n
                      * SumOfList([i \in DOMAIN b.f.sequence.a |-> StepTime(b.f.sequence.a[i])]))
    [] OTHER -> MinutesFor(b.f.sets.n * (b.f.work_seconds.n + b.f.rest_seconds.n))

\* a canonical object of several well-formed blocks that states no total
SeveralBlocksNoTotal(j) ==
  /\ IsCanonicalSchedule(j)
  /\ Len(j.f.blocks.a) >= 2
  /\ ~Has(j, "total_minutes")

\* C25: for an already-canonical input with several blocks and no
\* total_minutes, normalizeAIToWorkoutJSON of part_000 sets total_minutes to the
\* sum over the blocks of each block's duration in minutes by its archetype
\* formula, each block rounded up on its own.
C25_TotalIsSumOfBlockMinutes ==
  pc = "sent" /\ variant = "part_000" /\ SeveralBlocksNoTotal(json) =>
    /\ path = "normalized"
    /\ IsCanonicalSchedule(response)
    /\ Get(response, "total_minutes") =
         Num(SumOfList([i \in DOMAIN response.f.blocks.a |->
                          ArchetypeMinutes(response.f.blocks.a[i])]))

\* a circuit of 160 seconds, a sequence of 60 and two intervals of 30: 3 + 1 + 1 + 1
\* minutes, where the 280 seconds together would round up to 5
C25_Witness ==
  /\ pc = "sent" /\ variant = "part_000" /\ path = "normalized"
  /\ json = Canon(<<B_Circuit, B_Sequence, B_IntervalShort, B_IntervalShort>>)
  /\ Get(response, "total_minutes") = Num(6)

\* a schedule whose first block is an INTERVAL that carries a sequence
IsSequenced(r) ==
  /\ Has(r, "blocks") /\ isArray(r.f.blocks) /\ Len(r.f.blocks.a) > 0
  /\ Is(Get(r.f.blocks.a[1], "type"), S_INTERVAL)
  /\ Has(r.f.blocks.a[1], "sequence")

\* a schedule of the work/rest-pattern extractor
FromPattern(r) == Get(Get(r, "debug"), "notes") = Str(S_ParsedFromPattern)

C27_TimelineCircuitHasExercises ==
  pc = "returned" /\ normalized.k = "object" /\ FromTimeline(normalized)
  /\ Is(Get(normalized.f.blocks.a[1], "type"), S_CIRCUIT)
  => /\ isArray(Get(normalized.f.blocks.a[1], "exercises"))
     /\ Len(normalized.f.blocks.a[1].f.exercises.a) > 0

\* an item whose seconds is a whole number
WholeSeconds(item) ==
  /\ Has(item, "seconds") /\ item.f.seconds.k = "number" /\ "n" \in DOMAIN item.f.seconds

\* C28: in the timeline variant of the handler, every response sent on any
\* path has total_seconds = the sum of the seconds of its timeline items, and
\* on the AI path every item's seconds is an integer of at least 1, so that
\* total_seconds is at least the number of items.
C28_TotalSecondsIsTheSum ==
  pc = "sent" =>
    /\ isArray(Get(response, "timeline"))
    /\ path = "ai" =>
         /\ \A i \in DOMAIN response.f.timeline.a :
              /\ WholeSeconds(response.f.timeline.a[i])
              /\ response.f.timeline.a[i].f.seconds.n >= 1
         /\ Get(response, "total_seconds").k = "number"
         /\ Get(response, "total_seconds").n >= Len(response.f.timeline.a)
    /\ (\A i \in DOMAIN response.f.timeline.a : WholeSeconds(response.f.timeline.a[i])) =>
         Get(response, "total_seconds") =
           Num(SumOfList([i \in DOMAIN response.f.timeline.a |->
                            response.f.timeline.a[i].f.seconds.n]))

\* the round count a request text states, 1 when it states none
RoundsStated(txt) ==
  IF includes(txt, G_0rounds) THEN 0 ELSE IF includes(txt, G_3rounds) THEN 3 ELSE 1

\* C29: whenever createFallbackTimeline returns a timeline for a text with
\* round count r (any captured number, 0 included; 1 when none is stated), the
\* timeline is non-empty and is r work items with a rest item after each but the
\* last: 2r-1 items, work and rest alternating, rounds numbered 1..r.
C29_FallbackTimelineShape ==
  pc = "sent" /\ det.k = "object" =>
    /\ isArray(Get(det, "timeline"))
    /\ Len(det.f.timeline.a) > 0
    /\ Len(det.f.timeline.a) = 2 * RoundsStated(text) - 1
    /\ \A i \in DOMAIN det.f.timeline.a :
         /\ Get(det.f.timeline.a[i], "kind") = Str(IF i % 2 = 1 THEN S_work ELSE S_rest)
         /\ Get(det.f.timeline.a[i], "round") = Num((i + 1) \div 2)

\* an item that lacks kind, lacks label or has seconds that is no number
LacksAField(item) ==
  /\ item.k = "object"
  /\ \/ ~Has(item, "kind")
     \/ ~Has(item, "label")
     \/ ~Has(item, "seconds")
     \/ ~isNumber(item.f.seconds)

\* the provider answered with a timeline one of whose items is invalid
OneItemInvalid(j) ==
  /\ Has(j, "timeline") /\ isArray(j.f.timeline)
  /\ \E i \in DOMAIN j.f.timeline.a : LacksAField(j.f.timeline.a[i])

\* C30: in the timeline variant of the handler validation is all or nothing:
\* if any one item of the provider's timeline lacks kind, lacks label or has
\* non-numeric seconds, no item of that timeline is in the response, and the
\* response is the one createFallbackTimeline or the fixed two-item fallback
\* gives for the text, with debug.used_ai = false.
C30_ValidationAllOrNothing ==
  pc = "sent" /\ OneItemInvalid(json) =>
    /\ path \in {"det", "fallback"}
    /\ UsedAi(response) = Bool(FALSE)
    /\ response = (IF Truthy(createFallbackTimeline(text)) THEN createFallbackTimeline(text)
                   ELSE fbTimeline)
    /\ \A i \in DOMAIN response.f.timeline.a, k \in DOMAIN json.f.timeline.a :
         /\ response.f.timeline.a[i] # json.f.timeline.a[k]
         /\ Get(response.f.timeline.a[i], "label") # Str(S_Burpees)

\* a valid item followed by one without kind: the text's fallback is sent
C30_Witness ==
  /\ pc = "sent" /\ path = "det"
  /\ json = Obj([timeline |-> Arr(<<Event(S_work, S_Burpees, 20, 1),
                                    Obj([label |-> Str(S_Burpees), seconds |-> Num(20)])>>)])
  /\ text = JoinWith(<<G_3rounds, G_30sWork>>, P_commaSp)
  /\ Len(response.f.timeline.a) = 5

====
